---- MODULE Spec2Model ----
(***************************************************************************)
(* Syllabus extraction pipeline of kosen-syllabus: the bounded concurrent *)
(* batch runner (processInChunks, src/lib/chunkedProcessor.ts) and the    *)
(* two-stage fetch orchestrator (handleFetchSyllabus / handleFetch) with  *)
(* the Stage-1 route (extractSyllabusUrls) and the Stage-2 route (POST of *)
(* api/syllabus/detail).                                                   *)
(*                                                                         *)
(* Item indices are zero-based as in the source; TLA+ sequences are       *)
(* one-based, so item k of the array is items[k + 1].                     *)
(***************************************************************************)
EXTENDS Integers, Sequences, FiniteSets, TLC

\* ------------------------------------------------------------------ bounds
MaxItems == 5
MaxChunkSize == 3
MaxLinks == 3

\* ------------------------------------------------------- program constants
\* chunkSize and delayBetweenChunks the orchestrators pass to processInChunks
OrchestratorChunkSize == 2

VARIABLES
  caller,          \* who runs processInChunks: "direct" or an orchestrator version
  route,           \* which version of the Stage-1 route answers
  stage,           \* orchestrator position: "idle" | "urls" | "details" | "done"
  outcome,         \* how the orchestrator run ended: "none" | "failed" | "success"
  message,         \* parts of the failure message shown to the user
  fetchedSubjects, \* newSubjects handed to the UI / subject pool
  urlData,         \* the Stage-1 response the orchestrator received
  items,           \* processInChunks: items
  chunkSize,       \* processInChunks: options.chunkSize
  i,               \* processInChunks: loop variable
  pc,              \* processInChunks: "idle" | "await" | "sleep" | "returned"
  st,              \* per item: "new" | "pending" | "resolved" | "rejected"
  res,             \* per item: the value or error its worker settled with
  invoked,         \* per item: number of processor(item, ...) calls
  successful,      \* processInChunks: successful
  failed,          \* processInChunks: failed
  chunkStarts,     \* number of chunks started (chunk.map executed)
  delays,          \* number of inter-chunk setTimeout delays started
  progressCalls,   \* the onProgress calls made so far, in order
  errorCalls,      \* the onError calls made so far, in order
  detailRun,       \* one request to the Stage-2 detail route, step by step
  evalRun,         \* one application of the evaluation normalizer functions
  retry,           \* one call of retryWithBackoff, step by step
  cacheRun,        \* syllabusCache: localStorage, the clock and the calls made
  extractRun,      \* one application of an extraction or grading function
  poolRun          \* subjectPool and the timetable in localStorage

orchVars == <<caller, route, stage, outcome, message, fetchedSubjects, urlData>>
chunkVars == <<items, chunkSize, i, pc, st, res, invoked, successful, failed,
               chunkStarts, delays, progressCalls, errorCalls>>
storeVars == <<cacheRun, extractRun, poolRun>>
libVars == <<detailRun, evalRun, retry, storeVars>>
vars == <<orchVars, chunkVars, libVars>>

\* The library units are not running: the state of libVars in every
\* specification that is about the orchestrator or processInChunks.
NotRunning == [pc |-> "idle"]
StoreIdle == cacheRun = NotRunning /\ extractRun = NotRunning /\ poolRun = NotRunning
LibIdle ==
  detailRun = NotRunning /\ evalRun = NotRunning /\ retry = NotRunning /\ StoreIdle

Min(a, b) == IF a < b THEN a ELSE b

\* ------------------------------------------------------------------- URLs
\* A link is the string the collaborator returned, kept as its components:
\* two links are the same string iff all components agree.
\*   wellFormed : new URL(url) succeeds (FALSE also stands for the empty string)
\*   target     : host, path, subject_id, school_id and department_id match
\*   subject    : the subject_id query parameter
\*   lang       : the lang query parameter, "" when absent
DetailLink(s, l) == [wellFormed |-> TRUE, target |-> TRUE, subject |-> s, lang |-> l]
ListingLink == [wellFormed |-> TRUE, target |-> FALSE, subject |-> 0, lang |-> "ja"]
BrokenLink == [wellFormed |-> FALSE, target |-> FALSE, subject |-> 0, lang |-> ""]

\* urlData before any response: received is FALSE.  In a response, listed
\* tells that the listing page was scraped and its links filtered.
NoUrlData ==
  [received |-> FALSE, ok |-> FALSE, urls |-> <<>>, error |-> FALSE,
   scrapedUrl |-> FALSE, totalLinks |-> FALSE, listed |-> FALSE]

\* the item list a direct caller of processInChunks passes: n distinct items
DirectItems(n) == [k \in 1..n |-> DetailLink(k, "ja")]

\* --------------------------------------------------------- processInChunks
Settled == {"resolved", "rejected"}

\* Faulty variant of ChunkEnd: the slice takes one item too many.
ChunkEndWide(i0, cs, n) == Min(i0 + cs + 1, n)

\* Faulty variant of ChunkEnd: a slice is never empty while items are left.
ChunkEndNonEmpty(i0, cs, n) == Min(i0 + (IF cs = 0 THEN 1 ELSE cs), n)

\* Faulty variant of ChunkSeq: the workers of a chunk are taken last to first.
ChunkSeqReversed(i0, cs, n) ==
  [j \in 1..(Min(i0 + cs, n) - i0) |-> Min(i0 + cs, n) - j]

\* items.slice(i, i + chunkSize): the exclusive end index of the chunk at i0
ChunkEnd(i0, cs, n) == Min(i0 + cs, n)

\* the item indices of the chunk at i0, as chunk.map visits them
ChunkSeq(i0, cs, n) == [j \in 1..(ChunkEnd(i0, cs, n) - i0) |-> i0 + j - 1]

ChunkIdx(i0, cs, n) == i0..(ChunkEnd(i0, cs, n) - 1)

\* Faulty variant of AllSettled: the chunk is taken as done when its first worker
\* settles (Promise.race in place of Promise.all).
AnySettled(i0) == \E k \in ChunkIdx(i0, chunkSize, Len(items)) : st[k] \in Settled

\* Faulty variant of AllSettled: a rejected worker is never taken as done, so a
\* failure stops the run at its chunk.
AllResolved(i0) == \A k \in ChunkIdx(i0, chunkSize, Len(items)) : st[k] = "resolved"

\* await Promise.all(chunkPromises): every worker of the chunk has settled
AllSettled(i0) == \A k \in ChunkIdx(i0, chunkSize, Len(items)) : st[k] \in Settled

\* first argument of onProgress?.(itemIndex + 1, items.length, item)
ProgressArg(k) == k + 1

\* Faulty variant of NeedsDelay: the delay is also taken after the last chunk.
AlwaysDelay(i0) == TRUE

\* if (i + chunkSize < items.length): a delay follows the chunk at i0
NeedsDelay(i0) == i0 + chunkSize < Len(items)

\* Faulty variant of FailedEntry: the entry carries the offset inside the chunk.
FailedEntryOffset(k) == [index |-> k - i, error |-> res[k], item |-> items[k + 1]]

\* failed.push({ index: chunkResult.index, error, item })
FailedEntry(k) == [index |-> k, error |-> res[k], item |-> items[k + 1]]

\* the for-loop header with i = i0: start the chunk at i0 (chunk.map calls
\* processor on each of its items), or leave the loop and return.
EnterLoop(i0, its, cs, stCur, invCur, startsCur) ==
  /\ i' = i0
  /\ IF i0 < Len(its)
       THEN /\ pc' = "await"
            /\ st' = [k \in DOMAIN stCur |->
                        IF k \in ChunkIdx(i0, cs, Len(its)) THEN "pending" ELSE stCur[k]]
            /\ invoked' = [k \in DOMAIN invCur |->
                        IF k \in ChunkIdx(i0, cs, Len(its)) THEN invCur[k] + 1 ELSE invCur[k]]
            /\ chunkStarts' = startsCur + 1
       ELSE /\ pc' = "returned"
            /\ st' = stCur
            /\ invoked' = invCur
            /\ chunkStarts' = startsCur

\* processInChunks(its, processor, {chunkSize: cs, ...}) up to its first await
StartRun(its, cs) ==
  /\ items' = its
  /\ chunkSize' = cs
  /\ successful' = <<>>
  /\ failed' = <<>>
  /\ res' = [k \in 0..(Len(its) - 1) |-> "none"]
  /\ delays' = 0
  /\ progressCalls' = <<>>
  /\ errorCalls' = <<>>
  /\ EnterLoop(0, its, cs, [k \in 0..(Len(its) - 1) |-> "new"],
               [k \in 0..(Len(its) - 1) |-> 0], 0)

\* a direct call of processInChunks with n items and chunk size cs
Call ==
  /\ caller = "direct"
  /\ pc = "idle"
  /\ \E n \in 0..MaxItems, cs \in 1..MaxChunkSize : StartRun(DirectItems(n), cs)
  /\ UNCHANGED <<orchVars, libVars>>

\* processor(item, k, total) resolves with value v: the .then continuation
\* calls onProgress and yields {success: true, result, index}
WorkerResolves(k, v) ==
  /\ k \in DOMAIN st
  /\ st[k] = "pending"
  /\ st' = [st EXCEPT ![k] = "resolved"]
  /\ res' = [res EXCEPT ![k] = v]
  /\ progressCalls' = Append(progressCalls,
       [current |-> ProgressArg(k), total |-> Len(items), item |-> items[k + 1],
        resolvedSoFar |-> Cardinality({j \in DOMAIN st : st'[j] = "resolved"}),
        settledSoFar |-> Cardinality({j \in DOMAIN st : st'[j] \in Settled})])
  /\ UNCHANGED <<libVars, orchVars, items, chunkSize, i, pc, invoked, successful, failed,
                 chunkStarts, delays, errorCalls>>

\* processor(item, k, total) rejects with error e: the .catch continuation
\* calls onError and yields {success: false, error, index, item}
WorkerRejects(k, e) ==
  /\ k \in DOMAIN st
  /\ st[k] = "pending"
  /\ st' = [st EXCEPT ![k] = "rejected"]
  /\ res' = [res EXCEPT ![k] = e]
  /\ errorCalls' = Append(errorCalls, [error |-> e, index |-> k, item |-> items[k + 1]])
  /\ UNCHANGED <<libVars, orchVars, items, chunkSize, i, pc, invoked, successful, failed,
                 chunkStarts, delays, progressCalls>>

\* the chunk results in chunk order, split as the for-of loop splits them
ChunkSuccesses(i0) ==
  LET won == SelectSeq(ChunkSeq(i0, chunkSize, Len(items)), LAMBDA k : st[k] = "resolved")
  IN [j \in 1..Len(won) |-> res[won[j]]]

ChunkFailures(i0) ==
  LET lost == SelectSeq(ChunkSeq(i0, chunkSize, Len(items)), LAMBDA k : st[k] = "rejected")
  IN [j \in 1..Len(lost) |-> FailedEntry(lost[j])]

\* Promise.all resolved: collect the chunk's results, then either start the
\* inter-chunk delay or run the loop header again (which returns)
ChunkSettled ==
  /\ pc = "await"
  /\ AllSettled(i)
  /\ successful' = successful \o ChunkSuccesses(i)
  /\ failed' = failed \o ChunkFailures(i)
  /\ IF NeedsDelay(i)
       THEN /\ pc' = "sleep"
            /\ delays' = delays + 1
            /\ UNCHANGED <<i, st, invoked, chunkStarts>>
       ELSE /\ EnterLoop(i + chunkSize, items, chunkSize, st, invoked, chunkStarts)
            /\ UNCHANGED delays
  /\ UNCHANGED <<libVars, orchVars,
                 items, chunkSize, res, progressCalls, errorCalls>>

\* the setTimeout of the inter-chunk delay fires: i += chunkSize, loop header
TimerFired ==
  /\ pc = "sleep"
  /\ EnterLoop(i + chunkSize, items, chunkSize, st, invoked, chunkStarts)
  /\ UNCHANGED <<libVars, orchVars,
                 items, chunkSize, res, successful, failed, delays,
                 progressCalls, errorCalls>>

\* the worker of a direct caller: resolves with a value or rejects
DirectWorkerSettles ==
  /\ caller = "direct"
  /\ \E k \in DOMAIN st :
       \/ WorkerResolves(k, "value")
       \/ WorkerRejects(k, "error")

InitChunks ==
  /\ caller = "direct"
  /\ route = "none"
  /\ stage = "idle"
  /\ outcome = "none"
  /\ message = {}
  /\ fetchedSubjects = <<>>
  /\ urlData = NoUrlData
  /\ items = <<>>
  /\ chunkSize = 1
  /\ i = 0
  /\ pc = "idle"
  /\ st = <<>>
  /\ res = <<>>
  /\ invoked = <<>>
  /\ successful = <<>>
  /\ failed = <<>>
  /\ chunkStarts = 0
  /\ delays = 0
  /\ progressCalls = <<>>
  /\ errorCalls = <<>>
  /\ LibIdle

NextChunks ==
  \/ Call
  \/ DirectWorkerSettles
  \/ ChunkSettled
  \/ TimerFired

SpecChunks == InitChunks /\ [][NextChunks]_vars

\* the value processInChunks resolves with
Result == [successful |-> successful, failed |-> failed, total |-> Len(items)]

\* ------------------------------------------------- Stage 1: the urls route
Orchestrators == {"part_013", "SubjectModal", "Onboarding"}
Routes == {"part_007", "part_006", "route"}

\* the links the collaborator may return: two spellings of the detail page of
\* subject 1 (without lang, with lang=ja), two of the detail page of subject 2
\* (lang=ja, lang=en), a link that is no detail page, and a string that is no
\* URL
SampleLinks ==
  {DetailLink(1, ""), DetailLink(1, "ja"), DetailLink(2, "ja"), DetailLink(2, "en"),
   ListingLink, BrokenLink}

LinkLists == UNION {[1..m -> SampleLinks] : m \in 0..MaxLinks}

\* parsed.searchParams.set('lang', 'ja'); parsed.toString()
Normalized(url) == [url EXCEPT !.lang = "ja"]

\* the loop of extractSyllabusUrls from link j on; normalizing tells whether
\* the version pushes the normalized URL or the link itself.  seen always
\* receives the link as returned by the collaborator.
RECURSIVE ExtractLoop(_, _, _, _, _)
ExtractLoop(links, j, seen, result, normalizing) ==
  IF j > Len(links) THEN result
  ELSE LET url == links[j] IN
    IF url \in seen \/ ~url.wellFormed \/ ~url.target
      THEN ExtractLoop(links, j + 1, seen, result, normalizing)
      ELSE ExtractLoop(links, j + 1, seen \cup {url},
                       Append(result, IF normalizing THEN Normalized(url) ELSE url),
                       normalizing)

\* extractSyllabusUrls of each version of the route
extractSyllabusUrls(links) == ExtractLoop(links, 1, {}, <<>>, TRUE)
extractSyllabusUrls_part_006(links) == ExtractLoop(links, 1, {}, <<>>, TRUE)
extractSyllabusUrls_route(links) == ExtractLoop(links, 1, {}, <<>>, FALSE)

\* what can go wrong before the links are there
UrlsConfigs == {"ok", "nokey", "nodept"}
UrlsCollab == {"throws", "httperr", "links"}

UrlsError(hasScrapedUrl) ==
  [received |-> TRUE, ok |-> FALSE, urls |-> <<>>, error |-> TRUE, scrapedUrl |-> hasScrapedUrl,
   totalLinks |-> FALSE, listed |-> FALSE]

\* POST of the urls route, part_007
UrlsRoute_part_007(cfg, collab, links) ==
  IF cfg # "ok" THEN UrlsError(FALSE)
  ELSE IF collab = "throws" THEN UrlsError(FALSE)
  ELSE IF collab = "httperr" THEN UrlsError(TRUE)
  ELSE [received |-> TRUE, ok |-> TRUE, urls |-> extractSyllabusUrls(links), error |-> FALSE,
        scrapedUrl |-> TRUE, totalLinks |-> TRUE, listed |-> TRUE]

\* POST of the urls route, part_006: an unknown department answers 200 with
\* an error and no urls
UrlsRoute_part_006(cfg, collab, links) ==
  IF cfg = "nokey" THEN UrlsError(FALSE)
  ELSE IF cfg = "nodept"
    THEN [received |-> TRUE, ok |-> TRUE, urls |-> <<>>, error |-> TRUE, scrapedUrl |-> FALSE,
          totalLinks |-> FALSE, listed |-> FALSE]
  ELSE IF collab # "links" THEN UrlsError(FALSE)
  ELSE [received |-> TRUE, ok |-> TRUE, urls |-> extractSyllabusUrls_part_006(links), error |-> FALSE,
        scrapedUrl |-> FALSE, totalLinks |-> FALSE, listed |-> TRUE]

\* POST of src/app/api/syllabus/urls/route.ts: departmentToCode always
\* yields a code, so every department is scraped
UrlsRoute_route(cfg, collab, links) ==
  IF cfg = "nokey" THEN UrlsError(FALSE)
  ELSE IF collab # "links" THEN UrlsError(FALSE)
  ELSE [received |-> TRUE, ok |-> TRUE, urls |-> extractSyllabusUrls_route(links), error |-> FALSE,
        scrapedUrl |-> FALSE, totalLinks |-> FALSE, listed |-> TRUE]

UrlsRoute(r, cfg, collab, links) ==
  CASE r = "part_007" -> UrlsRoute_part_007(cfg, collab, links)
    [] r = "part_006" -> UrlsRoute_part_006(cfg, collab, links)
    [] OTHER -> UrlsRoute_route(cfg, collab, links)

\* ----------------------------------------------- Stage 2: the detail route
\* what the collaborator does with one detail URL
Docs == {"neterr", "httperr", "empty", "invalid", "valid"}

\* POST of the detail route: the response for detail URL url
DetailRoute(doc, url) ==
  CASE doc = "neterr" ->
         [ok |-> FALSE, success |-> FALSE, url |-> url, subject |-> 0, error |-> "connect"]
    [] doc = "httperr" ->
         [ok |-> FALSE, success |-> FALSE, url |-> url, subject |-> 0, error |-> "http"]
    [] doc = "empty" ->
         [ok |-> TRUE, success |-> FALSE, url |-> url, subject |-> 0, error |-> "empty"]
    [] doc = "invalid" ->
         [ok |-> TRUE, success |-> FALSE, url |-> url, subject |-> 0, error |-> "validation"]
    [] OTHER ->
         [ok |-> TRUE, success |-> TRUE, url |-> url, subject |-> url.subject, error |-> "none"]

\* ------------------------------------------------------- the orchestrators
\* the message of the zero-urls exit of each orchestrator
ZeroUrlsMessage(c, data) ==
  CASE c = "part_013" ->
         LET parts == (IF data.error THEN {"error"} ELSE {})
                      \cup (IF data.scrapedUrl THEN {"listingUrl"} ELSE {})
                      \cup (IF data.totalLinks THEN {"linkCount"} ELSE {})
         IN {"zero"} \cup (IF parts = {} THEN {"school", "dept", "year"} ELSE parts)
    [] c = "SubjectModal" -> {"zero", "school", "dept"}
    [] OTHER -> IF data.error THEN {"zero", "error"}
                ELSE {"zero", "school", "dept", "year"}

\* onError of the orchestrator: part_013 and Onboarding append {url, reason}
\* to failedUrls, SubjectModal only logs
failedUrls ==
  IF caller \in {"part_013", "Onboarding"}
    THEN [j \in 1..Len(errorCalls) |->
            [url |-> errorCalls[j].item, reason |-> errorCalls[j].error]]
    ELSE <<>>

\* onProgress of the orchestrator: setCurrentProgress({current, total})
currentProgress ==
  IF Len(progressCalls) = 0 THEN [current |-> 0, total |-> Len(items)]
  ELSE [current |-> progressCalls[Len(progressCalls)].current,
        total |-> progressCalls[Len(progressCalls)].total]

\* Faulty variant of NewSubjects: every resolved response counts as a subject.
NewSubjectsUnfiltered(results) == [j \in 1..Len(results) |-> results[j].subject]

\* results.successful filtered by (r.success && r.subject), mapped to subject
NewSubjects(results) ==
  LET kept == SelectSeq(results, LAMBDA r : r.success /\ r.subject # 0)
  IN [j \in 1..Len(kept) |-> kept[j].subject]

\* the button is pressed: reset the state and send the Stage-1 request
HandleFetch ==
  /\ caller \in Orchestrators
  /\ stage = "idle"
  /\ outcome = "none"
  /\ ~urlData.received
  /\ stage' = "urls"
  /\ UNCHANGED <<caller, route, outcome, message, fetchedSubjects, urlData, chunkVars,
                 libVars>>

\* the Stage-1 response arrives: a failed request and an empty url list end
\* the run, anything else calls processInChunks with chunkSize 2
UrlsResponse ==
  /\ stage = "urls"
  /\ \E cfg \in UrlsConfigs, collab \in UrlsCollab, links \in LinkLists :
       LET data == UrlsRoute(route, cfg, collab, links) IN
       /\ urlData' = data
       /\ IF ~data.ok
            THEN /\ stage' = "idle"
                 /\ outcome' = "failed"
                 /\ message' = {"urlsRequestFailed"}
                 /\ UNCHANGED chunkVars
            ELSE IF Len(data.urls) = 0
            THEN /\ stage' = "idle"
                 /\ outcome' = "failed"
                 /\ message' = ZeroUrlsMessage(caller, data)
                 /\ UNCHANGED chunkVars
            ELSE /\ stage' = "details"
                 /\ StartRun(data.urls, OrchestratorChunkSize)
                 /\ UNCHANGED <<outcome, message>>
  /\ UNCHANGED <<caller, route, fetchedSubjects, libVars>>

\* the worker of the orchestrators: the detail response for item k arrives;
\* a response that is not ok makes the worker throw, any other is returned
DetailSettles ==
  /\ stage = "details"
  /\ \E k \in DOMAIN st : \E doc \in Docs :
       LET resp == DetailRoute(doc, items[k + 1]) IN
       IF resp.ok THEN WorkerResolves(k, resp) ELSE WorkerRejects(k, resp.error)

\* processInChunks has resolved: no subject ends the run in failure, any
\* subject ends it in success
Stage2Done ==
  /\ stage = "details"
  /\ pc = "returned"
  /\ LET newSubjects == NewSubjects(Result.successful) IN
       IF Len(newSubjects) = 0
         THEN /\ outcome' = "failed"
              /\ message' = {"attempted", "noSubjects"}
              /\ UNCHANGED fetchedSubjects
         ELSE /\ outcome' = "success"
              /\ fetchedSubjects' = newSubjects
              /\ UNCHANGED message
  /\ stage' = "idle"
  /\ UNCHANGED <<caller, route, urlData, chunkVars, libVars>>

Init ==
  /\ caller \in Orchestrators
  /\ route \in Routes
  /\ stage = "idle"
  /\ outcome = "none"
  /\ message = {}
  /\ fetchedSubjects = <<>>
  /\ urlData = NoUrlData
  /\ items = <<>>
  /\ chunkSize = OrchestratorChunkSize
  /\ i = 0
  /\ pc = "idle"
  /\ st = <<>>
  /\ res = <<>>
  /\ invoked = <<>>
  /\ successful = <<>>
  /\ failed = <<>>
  /\ chunkStarts = 0
  /\ delays = 0
  /\ progressCalls = <<>>
  /\ errorCalls = <<>>
  /\ LibIdle

Next ==
  \/ HandleFetch
  \/ UrlsResponse
  \/ DetailSettles
  \/ ChunkSettled
  \/ TimerFired
  \/ Stage2Done

Spec == Init /\ [][Next]_vars

\* the event loop runs every continuation that is ready, and every worker
\* call settles (the premise of the termination claim)
FairChunks ==
  /\ SpecChunks
  /\ WF_vars(DirectWorkerSettles)
  /\ WF_vars(ChunkSettled)
  /\ WF_vars(TimerFired)

\* ------------------------------------------- validation of a candidate record
\* Percentages of the validator are kept in hundredths: the integer 100 * x
\* stands for the JavaScript number x, so that the two-decimal results of
\* normalizeEvaluationPercentages are integers and sums are exact. Credits,
\* session counts and points are plain integers.
Pct(n) == n * 100

\* Allow for rounding errors (+-2%)
TOLERANCE == 2

Abs(x) == IF x < 0 THEN 0 - x ELSE x

\* Math.round(n / d) for n >= 0, d > 0: the nearest integer, halves upwards
Round(n, d) == (2 * n + d) \div (2 * d)

RECURSIVE SumPercentage(_)
SumPercentage(criteria) ==
  IF criteria = <<>> THEN 0
  ELSE criteria[1].percentage + SumPercentage(Tail(criteria))

\* Faulty variant of FixRoundingError: the remaining difference is dropped.
KeepRoundingError(normalized) == normalized

\* if (difference !== 0 && normalized.length > 0) normalized[0].percentage += difference
FixRoundingError(normalized) ==
  LET difference == Pct(100) - SumPercentage(normalized)
  IN  IF difference # 0 /\ Len(normalized) > 0
      THEN [normalized EXCEPT ![1].percentage = @ + difference]
      ELSE normalized

normalizeEvaluationPercentages(criteria) ==
  LET total == SumPercentage(criteria)
  IN  IF total = 0 THEN criteria
      ELSE FixRoundingError(
             [j \in 1..Len(criteria) |->
                [criteria[j] EXCEPT !.percentage = Round(@ * 100 * 100, total)]])

\* normalized is undefined in the source wherever hasNormalized is FALSE here
validateEvaluationTotal(criteria) ==
  LET total == SumPercentage(criteria)
  IN  IF Len(criteria) = 0
      THEN [isValid |-> FALSE, total |-> 0, errors |-> <<"evalEmpty">>,
            hasNormalized |-> FALSE, normalized |-> <<>>]
      ELSE IF total = Pct(100)
      THEN [isValid |-> TRUE, total |-> Pct(100), errors |-> <<>>,
            hasNormalized |-> FALSE, normalized |-> <<>>]
      ELSE IF Abs(total - Pct(100)) <= Pct(TOLERANCE)
      THEN [isValid |-> TRUE, total |-> Pct(100), errors |-> <<"warnNormalized">>,
            hasNormalized |-> TRUE,
            normalized |-> normalizeEvaluationPercentages(criteria)]
      ELSE [isValid |-> FALSE, total |-> total,
            errors |-> <<"evalTotal",
                         IF total > Pct(100) THEN "evalExcess" ELSE "evalShortfall">>,
            hasNormalized |-> FALSE, normalized |-> <<>>]

\* JavaScript values of the fields of a candidate record (detail: any)
Undefined == [type |-> "undefined"]
Str(s) == [type |-> "string", str |-> s]
Num(n) == [type |-> "number", num |-> n]
Arr(a) == [type |-> "array", arr |-> a]

\* !v || typeof v !== 'string'
NotUsableString(v) == v.type # "string" \/ v.str = ""
\* typeof v !== 'number' || v < 1 || v > 10
CreditsInvalid(v) == v.type # "number" \/ v.num < 1 \/ v.num > 10
\* ![...].includes(v)
NotIncluded(v, allowed) == v.type # "string" \/ v.str \notin allowed
\* !Array.isArray(v) || v.length === 0
NotUsableArray(v) == v.type # "array" \/ Len(v.arr) = 0

\* String.prototype.trim on the strings of the model
Trim(s) ==
  CASE s = " Physics " -> "Physics"
    [] s = "  " -> ""
    [] OTHER -> s

ErrorIf(cond, msg) == IF cond THEN <<msg>> ELSE <<>>

\* the data of a result that has none (isValid: false)
NoData ==
  [subjectName |-> "", instructor |-> "", credits |-> 0, term |-> "",
   evaluationCriteria |-> <<>>, classType |-> ""]

EvaluationErrors(detail) ==
  IF NotUsableArray(detail.evaluationCriteria)
  THEN <<"evaluationCriteria">>
  ELSE LET evalValidation == validateEvaluationTotal(detail.evaluationCriteria.arr)
       IN  IF ~evalValidation.isValid THEN evalValidation.errors ELSE <<>>

\* Faulty variant of Push: validation stops at the first violated rule.
PushIfFirst(errors, more) == IF errors # <<>> THEN errors ELSE more

\* errors.push(...more)
Push(errors, more) == errors \o more

validateSyllabusDetail(detail) ==
  LET e1 == ErrorIf(NotUsableString(detail.subjectName), "subjectName")
      e2 == Push(e1, ErrorIf(NotUsableString(detail.instructor), "instructor"))
      e3 == Push(e2, ErrorIf(CreditsInvalid(detail.credits), "credits"))
      e4 == Push(e3, ErrorIf(NotIncluded(detail.term, {"spring", "fall", "both"}), "term"))
      e5 == Push(e4, ErrorIf(NotIncluded(detail.classType,
                                         {"lecture", "practical", "experiment"}),
                             "classType"))
      errors == Push(e5, EvaluationErrors(detail))
  IN  IF Len(errors) > 0
      THEN [isValid |-> FALSE, errors |-> errors, data |-> NoData]
      ELSE LET evalValidation == validateEvaluationTotal(detail.evaluationCriteria.arr)
               evaluationCriteria ==
                 IF evalValidation.hasNormalized THEN evalValidation.normalized
                 ELSE detail.evaluationCriteria.arr
           IN  [isValid |-> TRUE, errors |-> <<>>,
                data |-> [subjectName |-> Trim(detail.subjectName.str),
                          instructor |-> Trim(detail.instructor.str),
                          credits |-> detail.credits.num,
                          term |-> detail.term.str,
                          evaluationCriteria |-> evaluationCriteria,
                          classType |-> detail.classType.str]]

\* Faulty variant of AbsenceThreshold: the experiment rule rounds down.
AbsenceThresholdFloor(classType, classesPerSemester) ==
  IF classType = "experiment" THEN classesPerSemester \div 10
  ELSE classesPerSemester \div 3

\* experiment ? Math.ceil(classesPerSemester / 10) : Math.floor(classesPerSemester / 3)
AbsenceThreshold(classType, classesPerSemester) ==
  IF classType = "experiment" THEN (classesPerSemester + 9) \div 10
  ELSE classesPerSemester \div 3

\* The Subject built from a validated record (id, semester and academicYear,
\* which come from the clock and the request, are left out).
syllabusDetailToSubject(detail) ==
  LET classesPerSemester == detail.credits * 15
  IN  [name |-> detail.subjectName,
       instructor |-> detail.instructor,
       courseType |-> "required",
       classType |-> detail.classType,
       credits |-> detail.credits,
       passingGrade |-> 60,
       evaluationCriteria |->
         [idx \in 1..Len(detail.evaluationCriteria) |->
            [id |-> idx - 1,
             name |-> detail.evaluationCriteria[idx].name,
             weight |-> detail.evaluationCriteria[idx].percentage,
             maxPoints |-> 100]],
       grades |-> <<>>,
       absences |-> 0,
       absenceRecords |-> <<>>,
       absenceThreshold |-> AbsenceThreshold(detail.classType, classesPerSemester),
       classesPerSemester |-> classesPerSemester]

\* ------------------------------------------------- Stage 2: the detail route
\* The two versions of POST /api/syllabus/detail in the repository.
DetailHandlers == {"part_009", "route"}

\* markdown.trim().length < 50 is answered as "no content"
MinMarkdownLength == 50
MarkdownLengths == {0, MinMarkdownLength - 1, MinMarkdownLength, MinMarkdownLength + 1}

\* Percentages (in percent) the extracted evaluation items are drawn from,
\* and the largest number of items of a list.
MaxCriteria == 3
PercentageValues == {0, 1, 33, 48, 49, 50, 51}

Criteria(ps) == [j \in 1..Len(ps) |-> [name |-> j, percentage |-> Pct(ps[j])]]
CriteriaLists == {Criteria(ps) : ps \in UNION {[1..m -> PercentageValues] : m \in 0..MaxCriteria}}

\* a few lists that cover every outcome of the evaluation check
CriteriaSamples ==
  {Undefined, Arr(<<>>), Arr(Criteria(<<50, 50>>)), Arr(Criteria(<<49, 49>>)),
   Arr(Criteria(<<48, 49>>)), Arr(Criteria(<<51, 51, 1>>))}

\* What extractSyllabusDetail may hand to the validator: every field may be
\* absent, of the wrong type or out of range (Partial<SyllabusDetail>).
FieldCandidates ==
  [subjectName : {Undefined, Num(42), Str(""), Str(" Physics ")},
   instructor : {Undefined, Str("Sato")},
   credits : {Undefined, Str("2")} \cup {Num(c) : c \in 0..11},
   term : {Undefined, Str("spring"), Str("both"), Str("winter")},
   classType : {Undefined, Str("lecture"), Str("experiment"), Str("seminar")},
   evaluationCriteria : CriteriaSamples]

WellFormedCandidates ==
  [subjectName : {Str("Physics")},
   instructor : {Str("Sato")},
   credits : {Num(2)},
   term : {Str("fall")},
   classType : {Str("practical")},
   evaluationCriteria : {Arr(c) : c \in CriteriaLists}]

Candidates == FieldCandidates \cup WellFormedCandidates

NoCandidate ==
  [subjectName |-> Undefined, instructor |-> Undefined, credits |-> Undefined,
   term |-> Undefined, classType |-> Undefined, evaluationCriteria |-> Undefined]
NoValidation == [isValid |-> FALSE, errors |-> <<>>, data |-> NoData]
NoSubject == [name |-> "none"]
NoResponse == [status |-> 0, success |-> "absent", hasSubject |-> FALSE, subject |-> NoSubject]

\* NextResponse.json(body, {status}) for a body without a subject
ErrorResponse(status, success) ==
  [status |-> status, success |-> success, hasSubject |-> FALSE, subject |-> NoSubject]

DetailStart(h) ==
  [pc |-> "start", handler |-> h, fetch |-> "none", markdownLength |-> 0,
   syllabusDetail |-> NoCandidate, validated |-> FALSE, validation |-> NoValidation,
   assembled |-> FALSE, response |-> NoResponse]

Responded(run, response) == [run EXCEPT !.pc = "responded", !.response = response]

\* Faulty variant of TooShort: the length check is missing.
NeverTooShort(len) == FALSE

\* !markdown || markdown.trim().length < 50
TooShort(len) == len = 0 \/ len < MinMarkdownLength

\* The request is read and checked; a good request issues the scrape call.
DetailRequest(req) ==
  /\ detailRun.pc = "start"
  /\ detailRun' =
       CASE req = "badbody" ->
              Responded(detailRun,
                        ErrorResponse(IF detailRun.handler = "route" THEN 500 ELSE 400,
                                      "absent"))
         [] req \in {"nourl", "badurl"} -> Responded(detailRun, ErrorResponse(400, "absent"))
         [] req = "nokey" -> Responded(detailRun, ErrorResponse(500, "absent"))
         [] OTHER -> [detailRun EXCEPT !.pc = "fetch"]
  /\ UNCHANGED <<storeVars, orchVars, chunkVars, evalRun, retry>>

\* await fetch(...) settles: it throws, or answers with !ok or ok.
DetailFetchSettles(result) ==
  /\ detailRun.pc = "fetch"
  /\ detailRun' =
       CASE result = "throws" ->
              Responded([detailRun EXCEPT !.fetch = result],
                        IF detailRun.handler = "route"
                        THEN ErrorResponse(500, "absent")
                        ELSE ErrorResponse(502, "false"))
         [] result = "httperr" ->
              Responded([detailRun EXCEPT !.fetch = result], ErrorResponse(503, "false"))
         [] OTHER -> [detailRun EXCEPT !.pc = "json", !.fetch = result]
  /\ UNCHANGED <<storeVars, orchVars, chunkVars, evalRun, retry>>

\* From the markdown to the response, the synchronous rest of the handler:
\* length check, extraction (its result is `extracted`), validation, assembly.
ProcessMarkdown(run, len, extracted) ==
  IF TooShort(len)
  THEN Responded([run EXCEPT !.markdownLength = len], ErrorResponse(200, "false"))
  ELSE LET validation == validateSyllabusDetail(extracted)
           seen == [run EXCEPT !.markdownLength = len, !.syllabusDetail = extracted,
                               !.validated = TRUE, !.validation = validation]
       IN  IF ~validation.isValid
           THEN Responded(seen, ErrorResponse(200, "false"))
           ELSE Responded([seen EXCEPT !.assembled = TRUE],
                          [status |-> 200, success |-> "true", hasSubject |-> TRUE,
                           subject |-> syllabusDetailToSubject(validation.data)])

\* await scrapeResponse.json() settles. A body that does not parse is an
\* empty object in part_009 (.catch(() => ({}))) and an exception caught by
\* the outer try in route.ts.
DetailJsonSettles ==
  /\ detailRun.pc = "json"
  /\ \E parses \in BOOLEAN, len \in MarkdownLengths, extracted \in Candidates :
       detailRun' =
         IF parses THEN ProcessMarkdown(detailRun, len, extracted)
         ELSE IF detailRun.handler = "route"
         THEN Responded(detailRun, ErrorResponse(500, "absent"))
         ELSE ProcessMarkdown(detailRun, 0, extracted)
  /\ UNCHANGED <<storeVars, orchVars, chunkVars, evalRun, retry>>

\* every variable of the orchestrator and of processInChunks at rest
PipelineIdle ==
  /\ caller = "none"
  /\ route = "none"
  /\ stage = "idle"
  /\ outcome = "none"
  /\ message = {}
  /\ fetchedSubjects = <<>>
  /\ urlData = NoUrlData
  /\ items = <<>>
  /\ chunkSize = 1
  /\ i = 0
  /\ pc = "idle"
  /\ st = <<>>
  /\ res = <<>>
  /\ invoked = <<>>
  /\ successful = <<>>
  /\ failed = <<>>
  /\ chunkStarts = 0
  /\ delays = 0
  /\ progressCalls = <<>>
  /\ errorCalls = <<>>

InitDetail ==
  /\ PipelineIdle
  /\ StoreIdle
  /\ detailRun \in {DetailStart(h) : h \in DetailHandlers}
  /\ evalRun = NotRunning
  /\ retry = NotRunning

NextDetail ==
  \/ \E req \in {"badbody", "nourl", "nokey", "badurl", "ok"} : DetailRequest(req)
  \/ \E result \in {"throws", "httperr", "ok"} : DetailFetchSettles(result)
  \/ DetailJsonSettles

SpecDetail == InitDetail /\ [][NextDetail]_vars

\* ------------------------------------------------- evaluationNormalizer.ts
\* An EvaluationItem is kept as its weight; the other fields are copied
\* unchanged by every function of the file ({...item, weight}).
MaxEvalItems == 3
WeightValues == {0, 1, 2, 48, 49, 58, 59, 82, 100, 142}
WeightLists == UNION {[1..m -> WeightValues] : m \in 0..MaxEvalItems}

RECURSIVE SumWeight(_)
SumWeight(ws) == IF ws = <<>> THEN 0 ELSE ws[1] + SumWeight(Tail(ws))

\* Faulty variant of WithinTolerance: the bounds 98 and 102 are excluded.
StrictlyWithinTolerance(total) == Abs(total - 100) < 2

\* Math.abs(total - 100) <= 2
WithinTolerance(total) == Abs(total - 100) <= 2

isEvaluationValid(ws) ==
  IF Len(ws) = 0 THEN FALSE ELSE WithinTolerance(SumWeight(ws))

\* The quotients k for which the double nearest to k/100, multiplied by 100
\* in IEEE-754 double arithmetic, is below k: 0.29 * 100 is
\* 28.999999999999996, 0.57 * 100 and 0.58 * 100 are 56.99999999999999 and
\* 57.99999999999999. For every other ratio weight / total of non-negative
\* integers with total < 1500 the double product has the integer part of the
\* exact quotient.
FloatShort == {29, 57, 58}

\* Math.floor((item.weight / total) * 100) as doubles compute it,
\* for 0 <= weight <= total and total > 0
FloorScaled(weight, total) ==
  LET exact == (weight * 100) \div total
  IN  IF (weight * 100) % total = 0 /\ exact \in FloatShort THEN exact - 1 ELSE exact

\* reduce((maxI, item, i, arr) => item.weight > arr[maxI].weight ? i : maxI, 0)
RECURSIVE MaxIdxFrom(_, _, _)
MaxIdxFrom(ws, j, maxI) ==
  IF j > Len(ws) THEN maxI
  ELSE MaxIdxFrom(ws, j + 1, IF ws[j] > ws[maxI] THEN j ELSE maxI)
MaxIdx(ws) == MaxIdxFrom(ws, 1, 1)

\* Faulty variant of AddDiff: the residual is dropped.
DropDiff(normalized) == normalized

\* if (diff !== 0) normalized[maxIdx].weight += diff
AddDiff(normalized) ==
  LET diff == 100 - SumWeight(normalized)
  IN  IF diff # 0 THEN [normalized EXCEPT ![MaxIdx(normalized)] = @ + diff]
      ELSE normalized

\* Faulty variant of AlreadyHundred: a list that sums to 100 is rescaled too.
NeverAlreadyHundred(total) == FALSE

\* if (total === 100) return items
AlreadyHundred(total) == total = 100

normalizeToHundred(ws) ==
  LET total == SumWeight(ws)
  IN  IF Len(ws) = 0 THEN ws
      ELSE IF AlreadyHundred(total) THEN ws
      ELSE IF total = 0
      THEN LET equal == 100 \div Len(ws)
               remainder == 100 - equal * Len(ws)
           IN  [idx \in 1..Len(ws) |-> equal + (IF idx = 1 THEN remainder ELSE 0)]
      ELSE AddDiff([j \in 1..Len(ws) |-> FloorScaled(ws[j], total)])

\* converted: the result is the rebuilt list criteria.map(...), not the input
normalizeSubjectEvaluation(ws) ==
  IF isEvaluationValid(ws) THEN [converted |-> FALSE, weights |-> ws]
  ELSE LET normalized == normalizeToHundred(ws)
       IN  [converted |-> TRUE, weights |-> [j \in 1..Len(ws) |-> normalized[j]]]

\* the same items as the validator of types.ts takes them
AsCriteria(ws) == [j \in 1..Len(ws) |-> [name |-> j, percentage |-> Pct(ws[j])]]

EvalReady(ws) ==
  [pc |-> "ready", items |-> ws, fn |-> "none", valid |-> FALSE, converted |-> FALSE,
   out |-> <<>>, again |-> <<>>]

ApplyIsEvaluationValid ==
  /\ evalRun.pc = "ready"
  /\ evalRun' = [evalRun EXCEPT !.pc = "done", !.fn = "isEvaluationValid",
                                !.valid = isEvaluationValid(evalRun.items)]
  /\ UNCHANGED <<storeVars, orchVars, chunkVars, detailRun, retry>>

ApplyValidateEvaluationTotal ==
  /\ evalRun.pc = "ready"
  /\ evalRun' = [evalRun EXCEPT
                   !.pc = "done", !.fn = "validateEvaluationTotal",
                   !.valid = validateEvaluationTotal(AsCriteria(evalRun.items)).isValid]
  /\ UNCHANGED <<storeVars, orchVars, chunkVars, detailRun, retry>>

ApplyNormalizeToHundred ==
  /\ evalRun.pc = "ready"
  /\ evalRun' = [evalRun EXCEPT !.pc = "once", !.fn = "normalizeToHundred",
                                !.out = normalizeToHundred(evalRun.items)]
  /\ UNCHANGED <<storeVars, orchVars, chunkVars, detailRun, retry>>

\* normalizeToHundred applied to its own result
ApplyNormalizeAgain ==
  /\ evalRun.pc = "once"
  /\ evalRun' = [evalRun EXCEPT !.pc = "twice", !.again = normalizeToHundred(evalRun.out)]
  /\ UNCHANGED <<storeVars, orchVars, chunkVars, detailRun, retry>>

ApplyNormalizeSubjectEvaluation ==
  /\ evalRun.pc = "ready"
  /\ LET r == normalizeSubjectEvaluation(evalRun.items)
     IN  evalRun' = [evalRun EXCEPT !.pc = "done", !.fn = "normalizeSubjectEvaluation",
                                    !.converted = r.converted, !.out = r.weights]
  /\ UNCHANGED <<storeVars, orchVars, chunkVars, detailRun, retry>>

InitEval ==
  /\ PipelineIdle
  /\ StoreIdle
  /\ detailRun = NotRunning
  /\ evalRun \in {EvalReady(ws) : ws \in WeightLists}
  /\ retry = NotRunning

NextEval ==
  \/ ApplyIsEvaluationValid
  \/ ApplyValidateEvaluationTotal
  \/ ApplyNormalizeToHundred
  \/ ApplyNormalizeAgain
  \/ ApplyNormalizeSubjectEvaluation

SpecEval == InitEval /\ [][NextEval]_vars

\* ------------------------------------------------------- retryWithBackoff
\* The largest maxRetries a call is made with (the default is 3), and the
\* initialDelayMs values (the default is 1000).
MaxMaxRetries == 3
InitialDelays == {0, 1, 1000}
FnValues == {"v1", "v2"}
FnErrors == {"e1", "e2"}

\* Faulty variant of ShouldWait: a delay follows the last attempt too.
AlwaysWait(attempt, maxRetries) == TRUE

\* if (attempt < maxRetries - 1)
ShouldWait(attempt, maxRetries) == attempt < maxRetries - 1

\* initialDelayMs * Math.pow(2, attempt)
DelayMs(initialDelayMs, attempt) == initialDelayMs * 2^attempt

\* retry.pc: "start" | "call" (await fn()) | "wait" (await the timer) |
\*           "returned" | "thrown"
\* outcomes: what each call of fn settled with, in order
\* waits:    the delayMs of each setTimeout, in order
RetryStart(maxRetries, initialDelayMs) ==
  [pc |-> "start", maxRetries |-> maxRetries, initialDelayMs |-> initialDelayMs,
   attempt |-> 0, lastError |-> "Unknown error", calls |-> 0, outcomes |-> <<>>,
   waits |-> <<>>, result |-> "none", error |-> "none"]

\* the loop test, then either fn() is called or lastError is thrown
LoopHead(r) ==
  IF r.attempt < r.maxRetries
  THEN [r EXCEPT !.pc = "call", !.calls = @ + 1]
  ELSE [r EXCEPT !.pc = "thrown", !.error = r.lastError]

RetryCalled ==
  /\ retry.pc = "start"
  /\ retry' = LoopHead(retry)
  /\ UNCHANGED <<storeVars, orchVars, chunkVars, detailRun, evalRun>>

FnResolves(v) ==
  /\ retry.pc = "call"
  /\ retry' = [retry EXCEPT !.pc = "returned", !.result = v,
                            !.outcomes = Append(@, [ok |-> TRUE, settled |-> v])]
  /\ UNCHANGED <<storeVars, orchVars, chunkVars, detailRun, evalRun>>

FnRejects(e) ==
  /\ retry.pc = "call"
  /\ LET caught == [retry EXCEPT !.lastError = e,
                                 !.outcomes = Append(@, [ok |-> FALSE, settled |-> e])]
     IN  retry' =
           IF ShouldWait(retry.attempt, retry.maxRetries)
           THEN [caught EXCEPT !.pc = "wait",
                               !.waits = Append(@, DelayMs(retry.initialDelayMs,
                                                           retry.attempt))]
           ELSE LoopHead([caught EXCEPT !.attempt = @ + 1])
  /\ UNCHANGED <<storeVars, orchVars, chunkVars, detailRun, evalRun>>

RetryTimerFired ==
  /\ retry.pc = "wait"
  /\ retry' = LoopHead([retry EXCEPT !.attempt = @ + 1])
  /\ UNCHANGED <<storeVars, orchVars, chunkVars, detailRun, evalRun>>

InitRetry ==
  /\ PipelineIdle
  /\ StoreIdle
  /\ detailRun = NotRunning
  /\ evalRun = NotRunning
  /\ retry \in {RetryStart(m, d) : m \in 0..MaxMaxRetries, d \in InitialDelays}

NextRetry ==
  \/ RetryCalled
  \/ \E v \in FnValues : FnResolves(v)
  \/ \E e \in FnErrors : FnRejects(e)
  \/ RetryTimerFired

SpecRetry == InitRetry /\ [][NextRetry]_vars

\* ------------------------------------------------------------ syllabusCache
\* generateKey joins its arguments behind the prefix syllabus_cache_; a key
\* is kept as the tuple of its parts.
generateKey(schoolId, department, grade, year) ==
  <<"syllabus_cache", schoolId, department, grade, year>>
CacheKeys == {generateKey("20", d, 1, 2024) : d \in {"M", "E"}}
\* an item of localStorage that is not a syllabus cache
OtherKey == <<"kosen_subjects">>
StorageKeys == CacheKeys \cup {OtherKey}
\* k.startsWith('syllabus_cache_')
IsCacheKey(k) == k[1] = "syllabus_cache"

\* expiryHours * 60 * 60 * 1000
MsPerHour == 60 * 60 * 1000
ExpiryHours == {1}
\* Date.now(), counted from the first call; the clock is read at whole hours
\* and one millisecond after them, up to MaxHours.
MaxHours == 1
TimePoints == {h * MsPerHour + e : h \in 0..MaxHours, e \in {0, 1}}

\* The SyllabusDetail lists that are saved. JSON.stringify leaves out a
\* property whose value is undefined, so what JSON.parse gives back has the
\* property absent.
CacheData ==
  {<<[subjectName |-> "Physics", description |-> Str("mechanics")]>>,
   <<[subjectName |-> "Math", description |-> Undefined]>>}
Absent == [type |-> "absent"]
JsonRoundTrip(data) ==
  [j \in 1..Len(data) |->
     [data[j] EXCEPT !.description = IF @ = Undefined THEN Absent ELSE @]]

NoItem == [present |-> FALSE, data |-> <<>>, expiryTime |-> 0]
NoSave == [saved |-> FALSE, data |-> <<>>, expiryTime |-> 0, cleared |-> FALSE]
NoOp == [op |-> "none", key |-> OtherKey, hit |-> FALSE, data |-> <<>>]

\* store:      localStorage, one item per key
\* lastCall:   per key, the most recent save call and whether a clear of the
\*             key or a clearAll followed it
\* lastStored: the same for the most recent save whose setItem succeeded
\* lastOp:     what the call made last returned, when it was a get
CacheStart ==
  [pc |-> "run", now |-> 0,
   store |-> [k \in StorageKeys |->
                IF k = OtherKey THEN [present |-> TRUE, data |-> <<>>, expiryTime |-> 0]
                ELSE NoItem],
   lastCall |-> [k \in CacheKeys |-> NoSave],
   lastStored |-> [k \in CacheKeys |-> NoSave],
   lastOp |-> NoOp]

\* Faulty variant of Expired: the entry is dropped at its expiry time already.
ExpiredAtExpiry(now, expiryTime) == now >= expiryTime

\* Date.now() > expiryTime
Expired(now, expiryTime) == now > expiryTime

\* save(key, data, expiryHours); stored is FALSE when localStorage.setItem
\* throws (quota exceeded), which save catches and logs.
CacheSave(key, data, expiryHours, stored) ==
  /\ cacheRun.pc = "run"
  /\ LET expiryTime == cacheRun.now + expiryHours * MsPerHour
         call == [saved |-> TRUE, data |-> data, expiryTime |-> expiryTime,
                  cleared |-> FALSE]
     IN  cacheRun' =
           [cacheRun EXCEPT
              !.store[key] = IF stored
                             THEN [present |-> TRUE, data |-> JsonRoundTrip(data),
                                   expiryTime |-> expiryTime]
                             ELSE @,
              !.lastCall[key] = call,
              !.lastStored[key] = IF stored THEN call ELSE @,
              !.lastOp = NoOp]
  /\ UNCHANGED <<orchVars, chunkVars, detailRun, evalRun, retry, extractRun, poolRun>>

CacheGet(key) ==
  /\ cacheRun.pc = "run"
  /\ LET cached == cacheRun.store[key]
     IN  cacheRun' =
           IF ~cached.present
           THEN [cacheRun EXCEPT
                   !.lastOp = [op |-> "get", key |-> key, hit |-> FALSE, data |-> <<>>]]
           ELSE IF Expired(cacheRun.now, cached.expiryTime)
           THEN [cacheRun EXCEPT
                   !.store[key] = NoItem,
                   !.lastOp = [op |-> "get", key |-> key, hit |-> FALSE, data |-> <<>>]]
           ELSE [cacheRun EXCEPT
                   !.lastOp = [op |-> "get", key |-> key, hit |-> TRUE,
                               data |-> cached.data]]
  /\ UNCHANGED <<orchVars, chunkVars, detailRun, evalRun, retry, extractRun, poolRun>>

Cleared(call) == [call EXCEPT !.cleared = TRUE]

CacheClear(key) ==
  /\ cacheRun.pc = "run"
  /\ cacheRun' =
       [cacheRun EXCEPT
          !.store[key] = NoItem,
          !.lastCall[key] = Cleared(@),
          !.lastStored[key] = Cleared(@),
          !.lastOp = NoOp]
  /\ UNCHANGED <<orchVars, chunkVars, detailRun, evalRun, retry, extractRun, poolRun>>

CacheClearAll ==
  /\ cacheRun.pc = "run"
  /\ cacheRun' =
       [cacheRun EXCEPT
          !.store = [k \in StorageKeys |-> IF IsCacheKey(k) THEN NoItem ELSE @[k]],
          !.lastCall = [k \in CacheKeys |-> Cleared(@[k])],
          !.lastStored = [k \in CacheKeys |-> Cleared(@[k])],
          !.lastOp = NoOp]
  /\ UNCHANGED <<orchVars, chunkVars, detailRun, evalRun, retry, extractRun, poolRun>>

\* time passes between two calls
ClockAdvances(t) ==
  /\ cacheRun.pc = "run"
  /\ t > cacheRun.now
  /\ cacheRun' =
       [cacheRun EXCEPT
          !.now = t,
          !.lastOp = NoOp]
  /\ UNCHANGED <<orchVars, chunkVars, detailRun, evalRun, retry, extractRun, poolRun>>

InitCache ==
  /\ PipelineIdle
  /\ detailRun = NotRunning
  /\ evalRun = NotRunning
  /\ retry = NotRunning
  /\ cacheRun = CacheStart
  /\ extractRun = NotRunning
  /\ poolRun = NotRunning

NextCache ==
  \/ \E key \in CacheKeys, data \in CacheData, expiryHours \in ExpiryHours,
        stored \in BOOLEAN : CacheSave(key, data, expiryHours, stored)
  \/ \E key \in CacheKeys : CacheGet(key)
  \/ \E key \in CacheKeys : CacheClear(key)
  \/ CacheClearAll
  \/ \E t \in TimePoints : ClockAdvances(t)

SpecCache == InitCache /\ [][NextCache]_vars

\* ------------------------------------------- extraction (part_009, Stage 2)
\* Cell texts of the evaluation table, after split('|') and trim. The names
\* stand for the texts of the page: exam, report, routine and other are
\* EVAL_KEYWORDS, total is the total label, label is the label of the
\* overall-percentage row, kind is some other text of a header cell.
EVAL_KEYWORDS == {"exam", "report", "routine", "other", "quiz", "attendance", "paper"}
TotalLabel == "total"
OverallLabel == "label"

\* parseInt(text, 10) of the value cells of the model; NaN for the others
NaN == [isNaN |-> TRUE, val |-> 0]
Parsed(n) == [isNaN |-> FALSE, val |-> n]
ParseInt(text) ==
  CASE text = "100" -> Parsed(100)
    [] text = "80" -> Parsed(80)
    [] text = "20" -> Parsed(20)
    [] text = "0" -> Parsed(0)
    [] text = "-5" -> Parsed(0 - 5)
    [] OTHER -> NaN

\* /^\|[\s|:-]+\|$/ : every cell of the line is made of dashes, colons, blanks
IsSeparator(cells) == \A j \in 1..Len(cells) : cells[j] \in {"---", ""}

\* the loop over tableLines: the last header row seen before the first
\* overall-percentage row, and that row without its label cell
RECURSIVE ScanTableLines(_, _, _)
ScanTableLines(tableLines, j, headerCols) ==
  IF j > Len(tableLines) THEN [headerCols |-> headerCols, valueCols |-> <<>>]
  ELSE LET cells == tableLines[j]
       IN  IF IsSeparator(cells) \/ Len(cells) < 2
           THEN ScanTableLines(tableLines, j + 1, headerCols)
           ELSE IF \E c \in 1..Len(cells) : cells[c] \in EVAL_KEYWORDS
           THEN ScanTableLines(tableLines, j + 1, cells)
           ELSE IF cells[1] = OverallLabel /\ Len(headerCols) > 0
           THEN [headerCols |-> headerCols, valueCols |-> Tail(cells)]
           ELSE ScanTableLines(tableLines, j + 1, headerCols)

\* headerCols[nameOffset + i] ?? '' (i counted from 1 here)
HeaderName(headerCols, nameOffset, idx) ==
  IF nameOffset + idx <= Len(headerCols) THEN headerCols[nameOffset + idx] ELSE ""

\* !(!name || name === '合計' || isNaN(val) || val <= 0)
KeepPair(name, val) == ~(name = "" \/ name = TotalLabel \/ val.isNaN \/ val.val <= 0)

RECURSIVE PairColumns(_, _, _, _)
PairColumns(headerCols, valueCols, nameOffset, idx) ==
  IF idx > Len(valueCols) THEN <<>>
  ELSE LET name == HeaderName(headerCols, nameOffset, idx)
           val == ParseInt(valueCols[idx])
       IN  (IF KeepPair(name, val) THEN <<[name |-> name, percentage |-> val.val]>>
            ELSE <<>>)
           \o PairColumns(headerCols, valueCols, nameOffset, idx + 1)

\* Strategy 1 of extractEvaluationCriteria. found is FALSE when the strategy
\* returns nothing and the function goes on to its text strategies.
TableStrategy(tableLines) ==
  LET scan == ScanTableLines(tableLines, 1, <<>>)
      nameOffset == IF scan.headerCols[1] = "" THEN 1 ELSE 0
      result == PairColumns(scan.headerCols, scan.valueCols, nameOffset, 1)
  IN  IF Len(scan.headerCols) > 0 /\ Len(scan.valueCols) > 0 /\ Len(result) > 0
      THEN [found |-> TRUE, result |-> result]
      ELSE [found |-> FALSE, result |-> <<>>]

\* The offering-period field and the rest of the page, as the words the
\* patterns of extractTerm look for:
\*   "front" = 前期, "back" = 後期, "frontback" = 前後期, "year" = 通年,
\*   "other" = any other text
\* field.present: the page has a cell "開設期 | <text>"
TermWords == {"front", "back", "frontback", "year", "other"}
\* /前期/.test(words), /後期/.test(words): 前後期 contains 後期 but not 前期
HasFront(words) == "front" \in words
HasBack(words) == "back" \in words \/ "frontback" \in words
\* /通年|前期.*後期|後期.*前期|前後期/.test(term)
WholeYear(words) ==
  "year" \in words \/ "frontback" \in words \/ ("front" \in words /\ "back" \in words)

\* the scan of the whole page, which holds the field too
Fallback(content) ==
  LET words == content.rest \cup (IF content.field.present THEN content.field.words ELSE {})
  IN  IF HasFront(words) /\ HasBack(words) THEN "both"
      ELSE IF HasBack(words) THEN "fall"
      ELSE "spring"

extractTerm(content) ==
  IF content.field.present /\ WholeYear(content.field.words) THEN "both"
  ELSE IF content.field.present /\ HasBack(content.field.words) THEN "fall"
  ELSE IF content.field.present /\ HasFront(content.field.words) THEN "spring"
  ELSE Fallback(content)

\* gradeCalculatorV2.calculateAbsenceLimit (both versions in the file agree)
calculateAbsenceLimit(subject) ==
  LET classCount == IF subject.classesPerSemester = 0 THEN 40
                    ELSE subject.classesPerSemester
  IN  IF subject.classType = "experiment" \/ subject.classType = "practical"
      THEN (classCount + 9) \div 10
      ELSE classCount \div 3

\* The inputs of the three functions. A table is its header row, the
\* separator row and the overall-percentage row, with up to MaxColumns
\* columns after the label column; the table of the source comment is added.
MaxColumns == 2
HeaderCells == {"", "exam", "report", "total"}
ValueCells == {"80", "20", "0", "-5", "x"}
Table(first, names, values) ==
  <<<<first>> \o names, [j \in 1..(Len(names) + 1) |-> "---"], <<OverallLabel>> \o values>>
SourceTable(first) ==
  Table(first, <<"exam", "report", "routine", "", "other", "total">>,
        <<"80", "20", "0", "0", "0", "100">>)
Tables ==
  {SourceTable(first) : first \in {"", "kind"}}
  \cup UNION {{Table(first, names, values) :
                 first \in {"", "kind"},
                 names \in [1..m -> HeaderCells],
                 values \in [1..m -> ValueCells]} : m \in 1..MaxColumns}

Contents ==
  [field : {[present |-> FALSE, words |-> {}]}
           \cup {[present |-> TRUE, words |-> w] : w \in SUBSET TermWords},
   rest : SUBSET {"front", "back", "other"}]

ValidatedRecords ==
  [subjectName : {"Physics"}, instructor : {"Sato"}, credits : 1..10,
   term : {"spring"}, classType : {"lecture", "practical", "experiment"},
   evaluationCriteria : {Criteria(<<80, 20>>)}]

NoContent == [field |-> [present |-> FALSE, words |-> {}], rest |-> {}]
ExtractReady(kind, tableLines, content, record) ==
  [pc |-> "ready", kind |-> kind, tableLines |-> tableLines, content |-> content,
   record |-> record, table |-> [found |-> FALSE, result |-> <<>>], term |-> "none",
   absenceThreshold |-> 0, absenceLimit |-> 0]

ExtractInputs ==
  {ExtractReady("table", t, NoContent, NoData) : t \in Tables}
  \cup {ExtractReady("term", <<>>, c, NoData) : c \in Contents}
  \cup {ExtractReady("absence", <<>>, NoContent, r) : r \in ValidatedRecords}

ApplyTableStrategy ==
  /\ extractRun.pc = "ready"
  /\ extractRun.kind = "table"
  /\ extractRun' = [extractRun EXCEPT !.pc = "done",
                                      !.table = TableStrategy(extractRun.tableLines)]
  /\ UNCHANGED <<orchVars, chunkVars, detailRun, evalRun, retry, cacheRun, poolRun>>

ApplyExtractTerm ==
  /\ extractRun.pc = "ready"
  /\ extractRun.kind = "term"
  /\ extractRun' = [extractRun EXCEPT !.pc = "done",
                                      !.term = extractTerm(extractRun.content)]
  /\ UNCHANGED <<orchVars, chunkVars, detailRun, evalRun, retry, cacheRun, poolRun>>

\* the record is assembled and the calculator is asked for its limit
ApplyAbsenceLimit ==
  /\ extractRun.pc = "ready"
  /\ extractRun.kind = "absence"
  /\ LET subject == syllabusDetailToSubject(extractRun.record)
     IN  extractRun' = [extractRun EXCEPT
                          !.pc = "done",
                          !.absenceThreshold = subject.absenceThreshold,
                          !.absenceLimit = calculateAbsenceLimit(subject)]
  /\ UNCHANGED <<orchVars, chunkVars, detailRun, evalRun, retry, cacheRun, poolRun>>

InitExtract ==
  /\ PipelineIdle
  /\ detailRun = NotRunning
  /\ evalRun = NotRunning
  /\ retry = NotRunning
  /\ cacheRun = NotRunning
  /\ extractRun \in ExtractInputs
  /\ poolRun = NotRunning

NextExtract ==
  \/ ApplyTableStrategy
  \/ ApplyExtractTerm
  \/ ApplyAbsenceLimit

SpecExtract == InitExtract /\ [][NextExtract]_vars

\* ------------------------------------------------------------------
\* subjectPool and the timetable (storage.ts).  Both live in localStorage
\* under their own keys; every write goes through a try/catch that logs and
\* swallows a failing setItem.  The origin's quota is counted in records:
\* a write is accepted when the pool entries and the timetable subjects
\* together stay within StorageQuota.  The addedAt stamp of an entry and the
\* fields of a subject beyond id and name are left out.

\* Longest subject list handed to addEntries.
MaxSubjects == 2

\* Records that localStorage holds before setItem throws.
StorageQuota == 4

SubjectIds == {"math", "phys"}
PoolSubjects == {[id |-> sid, name |-> sid] : sid \in SubjectIds}
SubjectLists == UNION {[1..n -> PoolSubjects] : n \in 0..MaxSubjects}

\* (sourceSchoolId, sourceDepartment)
Sources == {<<"school1", "M">>, <<"school1", "E">>, <<"school2", "M">>}

Days == {1, 2}
Periods == {1, 2}

\* timetable-${Date.now()}-${Math.random()...}: nothing makes two of them
\* differ, so the id is any value of a small set.
TimetableIds == {"timetable-1", "timetable-2"}

\* An id that no pool entry carries.
MissingId == "none"

NoPoolOp == [op |-> "none"]

\* DEFAULT_CONFIG.timetable.subjects is one array object of the module:
\* getConfig hands out DEFAULT_CONFIG itself while nothing is stored, and
\* addSubject and deleteSubject then change it in place.
PoolStart(pool) ==
  [pc |-> "run", pool |-> pool, hasStored |-> FALSE, stored |-> <<>>,
   default |-> <<>>,
   last |-> NoPoolOp]

\* Faulty variant of SameSource: the department is not compared.
SameSchool(e, sourceSchoolId, sourceDepartment) ==
  e.sourceSchoolId = sourceSchoolId

\* e.sourceSchoolId === sourceSchoolId && e.sourceDepartment === sourceDepartment
SameSource(e, sourceSchoolId, sourceDepartment) ==
  e.sourceSchoolId = sourceSchoolId /\ e.sourceDepartment = sourceDepartment

\* storage.getConfig().timetable.subjects
TimetableSubjects(run) == IF run.hasStored THEN run.stored ELSE run.default

\* What setItem is asked to hold: pool and timetable as they would be stored.
Fits(pool, subjects) == Len(pool) + Len(subjects) <= StorageQuota

StoredSubjects(run) == run.stored

\* subjectPool.saveAll(entries): the pool afterwards.
SaveAll(run, entries) ==
  IF Fits(entries, StoredSubjects(run)) THEN entries ELSE run.pool

\* subjectPool.addEntries(subjects, sourceSchoolId, sourceDepartment)
PoolAddEntries(subjects, source) ==
  /\ poolRun.pc = "run"
  /\ LET existing == poolRun.pool
         NotReplaced(e) == ~SameSource(e, source[1], source[2])
         filtered == SelectSeq(existing, NotReplaced)
         newEntries == [k \in 1..Len(subjects) |->
                          [subject |-> subjects[k],
                           sourceSchoolId |-> source[1],
                           sourceDepartment |-> source[2]]]
         entries == filtered \o newEntries
     IN  poolRun' =
           [poolRun EXCEPT
              !.pool = SaveAll(poolRun, entries),
              !.last = [op |-> "addEntries", subjects |-> subjects,
                        source |-> source, before |-> existing,
                        saved |-> Fits(entries, StoredSubjects(poolRun))]]
  /\ UNCHANGED <<orchVars, chunkVars, detailRun, evalRun, retry, cacheRun, extractRun>>

\* subjectPool.removeEntry(subjectId)
PoolRemoveEntry(subjectId) ==
  /\ poolRun.pc = "run"
  /\ LET entries == poolRun.pool
         Other(e) == e.subject.id # subjectId
     IN  poolRun' =
           [poolRun EXCEPT
              !.pool = SaveAll(poolRun, SelectSeq(entries, Other)),
              !.last = NoPoolOp]
  /\ UNCHANGED <<orchVars, chunkVars, detailRun, evalRun, retry, cacheRun, extractRun>>

\* storage.saveConfig(config) after config.timetable.subjects became
\* subjects; while nothing is stored the change also stays in DEFAULT_CONFIG.
SaveConfig(run, subjects) ==
  [run EXCEPT
     !.default = IF run.hasStored THEN @ ELSE subjects,
     !.hasStored = @ \/ Fits(run.pool, subjects),
     !.stored = IF Fits(run.pool, subjects) THEN subjects ELSE @]

\* storage.deleteSubject(subjectId)
StorageDeleteSubject(run, subjectId) ==
  LET Other(s) == s.id # subjectId
  IN  SaveConfig(run, SelectSeq(TimetableSubjects(run), Other))

\* storage.addSubject(subject)
StorageAddSubject(run, subject) ==
  SaveConfig(run, Append(TimetableSubjects(run), subject))

\* Faulty variant of SameSlot: no placed subject counts as conflicting.
NeverSameSlot(s, dayOfWeek, period) == FALSE

\* s.dayOfWeek === dayOfWeek && s.period === period
SameSlot(s, dayOfWeek, period) == s.dayOfWeek = dayOfWeek /\ s.period = period

\* Array.prototype.find over the outcomes of its predicate, element by
\* element: the index of the first match, 0 when there is none.
FindIndex(hits) ==
  IF \E k \in 1..Len(hits) : hits[k]
  THEN CHOOSE k \in 1..Len(hits) : hits[k] /\ \A j \in 1..(k - 1) : ~hits[j]
  ELSE 0

\* subjectPool.promoteToTimetable(subjectId, dayOfWeek, period); newId is
\* the generated timetable id.
PromoteToTimetable(subjectId, dayOfWeek, period, newId) ==
  /\ poolRun.pc = "run"
  /\ LET entries == poolRun.pool
         entry == FindIndex([k \in 1..Len(entries) |->
                               entries[k].subject.id = subjectId])
         subjects == TimetableSubjects(poolRun)
         conflicting == FindIndex([k \in 1..Len(subjects) |->
                                     SameSlot(subjects[k], dayOfWeek, period)])
         called == [poolRun EXCEPT
                      !.last = [op |-> "promote", subjectId |-> subjectId,
                                found |-> entry # 0,
                                replaced |-> entry # 0 /\ conflicting # 0]]
     IN  IF entry = 0
         THEN poolRun' = called
         ELSE LET freed == IF conflicting # 0
                           THEN StorageDeleteSubject(called, subjects[conflicting].id)
                           ELSE called
                  subjectWithSlot == [id |-> newId,
                                      name |-> entries[entry].subject.name,
                                      dayOfWeek |-> dayOfWeek,
                                      period |-> period]
              IN  poolRun' = StorageAddSubject(freed, subjectWithSlot)
  /\ UNCHANGED <<orchVars, chunkVars, detailRun, evalRun, retry, cacheRun, extractRun>>

\* storage.deleteSubject(subjectId) called on its own
DeleteSubject(subjectId) ==
  /\ poolRun.pc = "run"
  /\ poolRun' = [StorageDeleteSubject(poolRun, subjectId) EXCEPT !.last = NoPoolOp]
  /\ UNCHANGED <<orchVars, chunkVars, detailRun, evalRun, retry, cacheRun, extractRun>>

\* The pool operations, from an empty pool and an empty timetable.
InitPool ==
  /\ PipelineIdle
  /\ detailRun = NotRunning
  /\ evalRun = NotRunning
  /\ retry = NotRunning
  /\ cacheRun = NotRunning
  /\ extractRun = NotRunning
  /\ poolRun = PoolStart(<<>>)

NextPool ==
  \/ \E subjects \in SubjectLists, source \in Sources : PoolAddEntries(subjects, source)
  \/ \E subjectId \in SubjectIds : PoolRemoveEntry(subjectId)

SpecPool == InitPool /\ [][NextPool]_vars

SourceOrder == <<<<"school1", "M">>, <<"school1", "E">>, <<"school2", "M">>>>

\* A pool that addEntries built and that leaves no room under the quota.
FullPool ==
  [k \in 1..StorageQuota |->
     [subject |-> IF k % 2 = 1 THEN [id |-> "math", name |-> "math"]
                  ELSE [id |-> "phys", name |-> "phys"],
      sourceSchoolId |-> SourceOrder[(k + 1) \div 2][1],
      sourceDepartment |-> SourceOrder[(k + 1) \div 2][2]]]

\* Pools to promote from: one entry, two entries, and the full pool.
PromotablePools == {SubSeq(FullPool, 1, 1), SubSeq(FullPool, 1, 2), FullPool}

\* promoteToTimetable and deleteSubject, from an empty timetable.
InitTimetable ==
  /\ PipelineIdle
  /\ detailRun = NotRunning
  /\ evalRun = NotRunning
  /\ retry = NotRunning
  /\ cacheRun = NotRunning
  /\ extractRun = NotRunning
  /\ \E pool \in PromotablePools : poolRun = PoolStart(pool)

NextTimetable ==
  \/ \E subjectId \in SubjectIds \cup {MissingId}, dayOfWeek \in Days,
        period \in Periods, newId \in TimetableIds :
        PromoteToTimetable(subjectId, dayOfWeek, period, newId)
  \/ \E subjectId \in TimetableIds : DeleteSubject(subjectId)

SpecTimetable == InitTimetable /\ [][NextTimetable]_vars

\* ------------------------------------------------------------------
\* processInChunks with callbacks that may throw and with any chunkSize >= 0,
\* and processItemsChunked (chunkedProcessor.ts).  A worker of processInChunks
\* is processor(...).then(onProgress ...).catch(onError ...): the catch also
\* receives what the then-continuation throws, and what the catch-continuation
\* throws rejects the worker's promise, so Promise.all and with it the awaiting
\* run reject.  The workers still in flight go on and call their callbacks.
\* st[k] = "threw" marks a worker whose promise rejected; pc = "rejected" a
\* run that rejected.

\* Rounds of the loop that a run with chunkSize = 0 is followed through.
MaxEmptyChunks == 3

Runners == {"callbacks", "itemsChunked"}

\* what the processor of item k resolves with
ValueOf(k) == [value |-> k]

\* the errors: of the processor, thrown by onProgress, thrown by onError
ErrorOf(origin, k) == [thrownBy |-> origin, index |-> k]

\* a call of processInChunks or processItemsChunked with n items and chunk
\* size cs
CallAnySize ==
  /\ caller \in Runners
  /\ pc = "idle"
  /\ \E n \in 0..MaxItems, cs \in 0..MaxChunkSize : StartRun(DirectItems(n), cs)
  /\ UNCHANGED <<orchVars, libVars>>

\* await Promise.all(chunkPromises) throws: the async function rejects
RunRejects == IF pc = "await" THEN "rejected" ELSE pc

\* processor resolves with v and onProgress throws: the catch-continuation
\* calls onError with the thrown error; onErrorThrows tells whether onError
\* throws in turn.
ProgressThrows(k, v, onErrorThrows) ==
  /\ k \in DOMAIN st
  /\ st[k] = "pending"
  /\ progressCalls' = Append(progressCalls,
       [current |-> ProgressArg(k), total |-> Len(items), item |-> items[k + 1],
        resolvedSoFar |-> Cardinality({j \in DOMAIN st : st[j] = "resolved"}),
        settledSoFar |-> Cardinality({j \in DOMAIN st : st[j] \in Settled})])
  /\ errorCalls' = Append(errorCalls,
       [error |-> ErrorOf("onProgress", k), index |-> k, item |-> items[k + 1]])
  /\ IF onErrorThrows
       THEN /\ st' = [st EXCEPT ![k] = "threw"]
            /\ res' = [res EXCEPT ![k] = ErrorOf("onError", k)]
            /\ pc' = RunRejects
       ELSE /\ st' = [st EXCEPT ![k] = "rejected"]
            /\ res' = [res EXCEPT ![k] = ErrorOf("onProgress", k)]
            /\ pc' = pc
  /\ UNCHANGED <<libVars, orchVars, items, chunkSize, i, invoked, successful, failed,
                 chunkStarts, delays>>

\* processor rejects with e and onError throws
ErrorThrows(k, e) ==
  /\ k \in DOMAIN st
  /\ st[k] = "pending"
  /\ errorCalls' = Append(errorCalls, [error |-> e, index |-> k, item |-> items[k + 1]])
  /\ st' = [st EXCEPT ![k] = "threw"]
  /\ res' = [res EXCEPT ![k] = ErrorOf("onError", k)]
  /\ pc' = RunRejects
  /\ UNCHANGED <<libVars, orchVars, items, chunkSize, i, invoked, successful, failed,
                 chunkStarts, delays, progressCalls>>

\* a worker of processInChunks settles, its callbacks returning or throwing
CallbackWorkerSettles ==
  /\ caller = "callbacks"
  /\ \E k \in DOMAIN st :
       \/ WorkerResolves(k, ValueOf(k))
       \/ WorkerRejects(k, ErrorOf("processor", k))
       \/ \E onErrorThrows \in BOOLEAN : ProgressThrows(k, ValueOf(k), onErrorThrows)
       \/ ErrorThrows(k, ErrorOf("processor", k))

\* the loop goes on; a run with chunkSize = 0 is followed for
\* MaxEmptyChunks rounds
RoundsLeft == chunkSize = 0 => chunkStarts < MaxEmptyChunks

CallbackChunkSettled ==
  /\ caller = "callbacks"
  /\ RoundsLeft
  /\ ChunkSettled

AnyTimerFired ==
  /\ caller \in Runners
  /\ RoundsLeft
  /\ TimerFired

\* callback(item, k, total) of processItemsChunked settles: nothing catches
\* a rejection, so it rejects Promise.all and the run
ItemsCallbackSettles ==
  /\ caller = "itemsChunked"
  /\ \E k \in DOMAIN st :
       /\ st[k] = "pending"
       /\ \/ /\ st' = [st EXCEPT ![k] = "resolved"]
             /\ res' = res
             /\ pc' = pc
          \/ /\ st' = [st EXCEPT ![k] = "threw"]
             /\ res' = [res EXCEPT ![k] = ErrorOf("callback", k)]
             /\ pc' = RunRejects
  /\ UNCHANGED <<libVars, orchVars, items, chunkSize, i, invoked, successful, failed,
                 chunkStarts, delays, progressCalls, errorCalls>>

\* processItemsChunked: Promise.all resolved, then the delay or the loop header
ItemsChunkSettled ==
  /\ caller = "itemsChunked"
  /\ pc = "await"
  /\ AllSettled(i)
  /\ IF NeedsDelay(i)
       THEN /\ pc' = "sleep"
            /\ delays' = delays + 1
            /\ UNCHANGED <<i, st, invoked, chunkStarts>>
       ELSE /\ EnterLoop(i + chunkSize, items, chunkSize, st, invoked, chunkStarts)
            /\ UNCHANGED delays
  /\ UNCHANGED <<libVars, orchVars, items, chunkSize, res, successful, failed,
                 progressCalls, errorCalls>>

BoundedItemsChunkSettled ==
  /\ RoundsLeft
  /\ ItemsChunkSettled

InitCallbacks ==
  /\ caller \in Runners
  /\ route = "none"
  /\ stage = "idle"
  /\ outcome = "none"
  /\ message = {}
  /\ fetchedSubjects = <<>>
  /\ urlData = NoUrlData
  /\ items = <<>>
  /\ chunkSize = 1
  /\ i = 0
  /\ pc = "idle"
  /\ st = <<>>
  /\ res = <<>>
  /\ invoked = <<>>
  /\ successful = <<>>
  /\ failed = <<>>
  /\ chunkStarts = 0
  /\ delays = 0
  /\ progressCalls = <<>>
  /\ errorCalls = <<>>
  /\ LibIdle

NextCallbacks ==
  \/ CallAnySize
  \/ CallbackWorkerSettles
  \/ CallbackChunkSettled
  \/ AnyTimerFired
  \/ ItemsCallbackSettles
  \/ BoundedItemsChunkSettled

SpecCallbacks == InitCallbacks /\ [][NextCallbacks]_vars

\* ------------------------------------------------------------------ claims
N == Len(items)
ChunkOf(k) == k \div chunkSize
CeilDiv(a, b) == (a + b - 1) \div b
Rejected == {k \in DOMAIN st : st[k] = "rejected"}
Resolved == {k \in DOMAIN st : st[k] = "resolved"}
Pending == {k \in DOMAIN st : st[k] = "pending"}

\* C1: no worker of chunk k+1 has been invoked while a worker of chunk k is
\* still unsettled, whatever the order in which the workers of chunk k settle.
C1_ChunkBarrier ==
  \A a \in DOMAIN st : \A b \in DOMAIN st :
    (ChunkOf(a) < ChunkOf(b) /\ invoked[b] > 0) => st[a] \in Settled

\* a second chunk is running after a first chunk whose last item settled first
C1_Witness ==
  /\ chunkSize = 2
  /\ i = 2
  /\ pc = "await"
  /\ Len(progressCalls) >= 1
  /\ progressCalls[1].current = 2
  /\ st[0] = "rejected"
  /\ st[2] = "pending"

\* C2: the number of worker calls started and not yet settled never exceeds
\* chunkSize.
C2_InFlightBound == Cardinality(Pending) <= chunkSize

\* a full chunk other than the first is in flight
C2_Witness == chunkSize >= 2 /\ i > 0 /\ Cardinality(Pending) = chunkSize

\* C3: when the run has returned, the worker was invoked exactly once per
\* item, total is the number of items, successful and failed partition the
\* items, and failed holds exactly one entry per rejecting item with that
\* item's zero-based index and the item itself.
C3_PartialFailure ==
  pc = "returned" =>
    /\ \A k \in DOMAIN invoked : invoked[k] = 1
    /\ Result.total = N
    /\ Len(Result.successful) + Len(Result.failed) = Result.total
    /\ Len(Result.failed) = Cardinality(Rejected)
    /\ {Result.failed[j].index : j \in 1..Len(Result.failed)} = Rejected
    /\ \A j \in 1..Len(Result.failed) :
         Result.failed[j].item = items[Result.failed[j].index + 1]
    /\ Len(Result.successful) = Cardinality(Resolved)
    /\ Len(errorCalls) = Cardinality(Rejected)

\* 5 items in chunks of 2, only the third item rejects: 4 successful, 1
\* failed with index 2
C3_Witness ==
  /\ pc = "returned"
  /\ N = 5
  /\ chunkSize = 2
  /\ Rejected = {2}
  /\ Len(Result.successful) = 4
  /\ Len(Result.failed) = 1
  /\ Result.failed[1].index = 2

\* C4: a finished run of n items with chunk size c started ceil(n/c) chunks
\* and ceil(n/c) - 1 delays (none for n = 0); during the run one delay has
\* been started after each chunk that is over, and the last chunk is
\* followed by none.
C4_ChunkPacing ==
  /\ pc = "returned" =>
       /\ chunkStarts = CeilDiv(N, chunkSize)
       /\ delays = IF N = 0 THEN 0 ELSE CeilDiv(N, chunkSize) - 1
  /\ pc = "await" => delays = chunkStarts - 1
  /\ pc = "sleep" => delays = chunkStarts /\ chunkStarts < CeilDiv(N, chunkSize)

\* c = 2, n = 5: 3 chunk starts and 2 delays
C4_Witness ==
  pc = "returned" /\ N = 5 /\ chunkSize = 2 /\ chunkStarts = 3 /\ delays = 2

\* C5: every onProgress call carries as first argument the number of items
\* completed so far, read either as the workers resolved so far or as the
\* workers settled so far.
C5_ProgressIsCompletedCount ==
  \A j \in 1..Len(progressCalls) :
    \/ progressCalls[j].current = progressCalls[j].resolvedSoFar
    \/ progressCalls[j].current = progressCalls[j].settledSoFar

\* C6: a run that has begun eventually returns, and when it has returned the
\* worker has been invoked on every item of every chunk, failed items or not.
C6_RunsToCompletion ==
  /\ (pc # "idle") ~> (pc = "returned")
  /\ [](pc = "returned" => \A k \in DOMAIN invoked : invoked[k] >= 1)

\* a run of three chunks has returned although an item of the first failed
C6_Witness ==
  /\ pc = "returned"
  /\ N = 5
  /\ chunkSize = 2
  /\ 0 \in Rejected
  /\ 4 \in Resolved

\* the items of the finished Stage-2 run that produced a course record
Produced == {k \in DOMAIN st : st[k] = "resolved" /\ res[k].success}
Stage2Ended == caller \in Orchestrators /\ pc = "returned" /\ outcome # "none"

\* C7: after a Stage-2 run of handleFetchSyllabus every attempted detail URL
\* either contributed a course record to the result or is in failedUrls with
\* its url and a reason.
C7_NoUrlDropped ==
  (Stage2Ended /\ caller = "part_013") =>
    \A k \in DOMAIN st :
      \/ /\ k \in Produced
         /\ \E j \in 1..Len(fetchedSubjects) : fetchedSubjects[j] = res[k].subject
      \/ \E j \in 1..Len(failedUrls) :
           failedUrls[j].url = items[k + 1] /\ failedUrls[j].reason # "none"

\* C8: a Stage-2 run ends in failure exactly when no attempted URL produced a
\* course record; otherwise it ends in success with exactly the records
\* produced, whatever the number of failed URLs.
C8_FailsIffNoRecord ==
  Stage2Ended =>
    /\ outcome = "failed" <=> Produced = {}
    /\ outcome = "success" <=> Produced # {}
    /\ Len(fetchedSubjects) = Cardinality(Produced)
    /\ \A k \in Produced :
         \E j \in 1..Len(fetchedSubjects) : fetchedSubjects[j] = res[k].subject

\* a run of three URLs ended in success with one record, one URL rejected
\* and one answered without a record
C8_Witness ==
  /\ Stage2Ended
  /\ Len(items) = 3
  /\ outcome = "success"
  /\ Cardinality(Produced) = 1
  /\ Len(Result.failed) = 1
  /\ Len(Result.successful) = 2

\* C9: when Stage 1 scraped the listing page and no link matched, the run has
\* failed without any Stage-2 request and its message names the listing URL.
C9_ZeroUrlsNamesListing ==
  (urlData.received /\ urlData.listed /\ Len(urlData.urls) = 0) =>
    /\ outcome = "failed"
    /\ pc = "idle"
    /\ \A k \in DOMAIN invoked : invoked[k] = 0
    /\ "listingUrl" \in message

\* C10: the url list Stage 1 returns holds no URL twice.
C10_UrlsDeduplicated ==
  \A a \in 1..Len(urlData.urls) : \A b \in 1..Len(urlData.urls) :
    urlData.urls[a] = urlData.urls[b] => a = b

\* ------------------------------------------------------- claims C11 .. C20
\* C11: in the Stage-2 pipeline syllabusDetailToSubject is called only for a
\* record validateSyllabusDetail accepted, and a request whose fetch failed,
\* whose document is empty or shorter than 50 characters, or whose record
\* failed validation answers without a course record.
C11_AssembledOnlyIfValidated ==
  /\ detailRun.assembled =>
       /\ detailRun.validated
       /\ detailRun.validation = validateSyllabusDetail(detailRun.syllabusDetail)
       /\ detailRun.validation.isValid
  /\ (detailRun.pc = "responded" /\
      (\/ detailRun.fetch # "ok"
       \/ detailRun.markdownLength < MinMarkdownLength
       \/ ~detailRun.validation.isValid)) =>
       /\ ~detailRun.assembled
       /\ ~detailRun.response.hasSubject
       /\ detailRun.response.success # "true"

\* route.ts assembled a record from a document of exactly 50 characters
C11_Witness ==
  /\ detailRun.pc = "responded"
  /\ detailRun.handler = "route"
  /\ detailRun.assembled
  /\ detailRun.response.hasSubject
  /\ detailRun.markdownLength = MinMarkdownLength

\* C12: the evaluationCriteria of every record validateSyllabusDetail accepts
\* sum to exactly 100, in exact arithmetic on hundredths, also when the
\* extracted percentages summed to 98, 99, 101 or 102.
C12_AcceptedSumsToHundred ==
  (detailRun.validated /\ detailRun.validation.isValid) =>
    SumPercentage(detailRun.validation.data.evaluationCriteria) = Pct(100)

\* three items of 33% were accepted and their percentages were changed
C12_Witness ==
  /\ detailRun.validated
  /\ detailRun.validation.isValid
  /\ detailRun.syllabusDetail.evaluationCriteria = Arr(Criteria(<<33, 33, 33>>))
  /\ detailRun.validation.data.evaluationCriteria # Criteria(<<33, 33, 33>>)

\* the rules of a candidate record, as the specification states them
RuleViolated(rule, d) ==
  CASE rule = "subjectName" -> ~(d.subjectName.type = "string" /\ d.subjectName.str # "")
    [] rule = "instructor" -> ~(d.instructor.type = "string" /\ d.instructor.str # "")
    [] rule = "credits" ->
         ~(d.credits.type = "number" /\ d.credits.num >= 1 /\ d.credits.num <= 10)
    [] rule = "term" -> ~(d.term.type = "string" /\ d.term.str \in {"spring", "fall", "both"})
    [] rule = "classType" ->
         ~(d.classType.type = "string"
           /\ d.classType.str \in {"lecture", "practical", "experiment"})
    [] rule = "evaluation" ->
         ~(/\ d.evaluationCriteria.type = "array"
           /\ d.evaluationCriteria.arr # <<>>
           /\ SumPercentage(d.evaluationCriteria.arr) >= Pct(98)
           /\ SumPercentage(d.evaluationCriteria.arr) <= Pct(102))
Rules == {"subjectName", "instructor", "credits", "term", "classType", "evaluation"}
MessagesOf(rule) ==
  IF rule = "evaluation" THEN {"evaluationCriteria", "evalEmpty", "evalTotal"} ELSE {rule}
Range(f) == {f[x] : x \in DOMAIN f}

C13_ValidIffWithinTwo ==
  (evalRun.pc = "done" /\ evalRun.fn \in {"isEvaluationValid", "validateEvaluationTotal"}) =>
    LET total == SumWeight(evalRun.items)
    IN  /\ evalRun.valid <=> (evalRun.items # <<>> /\ total >= 98 /\ total <= 102)
        /\ total \in {98, 102} => evalRun.valid
        /\ total \in {97, 103} => ~evalRun.valid

\* isEvaluationValid accepted a list that sums to 102
C13_Witness ==
  /\ evalRun.pc = "done"
  /\ evalRun.fn = "isEvaluationValid"
  /\ SumWeight(evalRun.items) = 102
  /\ evalRun.valid

\* C15: the weights normalizeToHundred returns for a non-empty list of
\* integer percentages sum to exactly 100.
C15_NormalizedSumsToHundred ==
  (evalRun.fn = "normalizeToHundred" /\ evalRun.items # <<>>) =>
    SumWeight(evalRun.out) = 100

\* a list that sums to 201 was scaled down and its residual of 2 added
C15_Witness ==
  /\ evalRun.fn = "normalizeToHundred"
  /\ evalRun.items = <<100, 100, 1>>
  /\ evalRun.out = <<51, 49, 0>>

\* C16: normalizeToHundred is idempotent on non-empty lists of non-negative
\* integer percentages: normalizing its result again changes nothing.
C16_NormalizeIdempotent ==
  (evalRun.pc = "twice" /\ evalRun.items # <<>>) => evalRun.again = evalRun.out

\* a list that the first application changed was normalized twice
C16_Witness ==
  /\ evalRun.pc = "twice"
  /\ evalRun.items # <<>>
  /\ evalRun.out # evalRun.items
  /\ evalRun.again = evalRun.out

\* the reference rule of the specification, in exact integer arithmetic
ReferenceScaled(ws) == [j \in 1..Len(ws) |-> (ws[j] * 100) \div SumWeight(ws)]
FirstLargest(ws) == CHOOSE j \in 1..Len(ws) :
  /\ \A k \in 1..Len(ws) : ws[k] <= ws[j]
  /\ \A k \in 1..(j - 1) : ws[k] < ws[j]
ReferenceNormalize(ws) ==
  IF SumWeight(ws) = 100 THEN ws
  ELSE IF SumWeight(ws) = 0
  THEN [j \in 1..Len(ws) |->
          (100 \div Len(ws)) + (IF j = 1 THEN 100 - (100 \div Len(ws)) * Len(ws) ELSE 0)]
  ELSE LET scaled == ReferenceScaled(ws)
       IN  [scaled EXCEPT ![FirstLargest(scaled)] = @ + (100 - SumWeight(scaled))]

\* C17: normalizeToHundred agrees with the reference rule on every non-empty
\* list of non-negative integers (sum 100: unchanged; sum 0: floor(100/n)
\* each, remainder to the first; otherwise floor(p*100/sum) each, residual to
\* the first largest scaled value).
C17_AgreesWithReference ==
  (evalRun.fn = "normalizeToHundred" /\ evalRun.items # <<>>) =>
    evalRun.out = ReferenceNormalize(evalRun.items)

\* C18: normalizeSubjectEvaluation returns its input unconverted only when
\* the weights sum to exactly 100, and for every other non-empty input the
\* weights it returns sum to 100.
C18_UnconvertedOnlyAtHundred ==
  (evalRun.fn = "normalizeSubjectEvaluation" /\ evalRun.items # <<>>) =>
    /\ ~evalRun.converted => SumWeight(evalRun.items) = 100
    /\ SumWeight(evalRun.items) # 100 => SumWeight(evalRun.out) = 100

Failures(r) == {k \in 1..Len(r.outcomes) : ~r.outcomes[k].ok}

\* C20: with maxRetries >= 1, retryWithBackoff calls fn at most maxRetries
\* times and returns the value of the first success; after the k-th failed
\* attempt (k from 0) it waits initialDelay * 2^k before the next attempt,
\* never after the last one; when every attempt failed it rejects with the
\* error of the last attempt.
C20_RetryWithBackoff ==
  retry.maxRetries >= 1 =>
    /\ retry.calls <= retry.maxRetries
    /\ \A k \in 1..Len(retry.outcomes) :
         retry.outcomes[k].ok => (k = Len(retry.outcomes) /\ retry.pc = "returned")
    /\ retry.pc = "returned" =>
         /\ retry.outcomes[Len(retry.outcomes)].ok
         /\ retry.result = retry.outcomes[Len(retry.outcomes)].settled
         /\ retry.calls = Len(retry.outcomes)
    /\ \A k \in 1..Len(retry.waits) :
         /\ retry.waits[k] = retry.initialDelayMs * 2^(k - 1)
         /\ k <= retry.maxRetries - 1
         /\ ~retry.outcomes[k].ok
    /\ retry.pc = "call" => Len(retry.waits) = retry.calls - 1
    /\ retry.pc = "wait" => Len(retry.waits) = retry.calls
    /\ retry.pc = "thrown" =>
         /\ retry.calls = retry.maxRetries
         /\ Cardinality(Failures(retry)) = retry.maxRetries
         /\ Len(retry.waits) = retry.maxRetries - 1
         /\ retry.error = retry.outcomes[retry.maxRetries].settled

\* three attempts failed with different errors, two delays were waited,
\* and the error of the third attempt was thrown
C20_Witness ==
  /\ retry.pc = "thrown"
  /\ retry.maxRetries = 3
  /\ retry.waits = <<1000, 2000>>
  /\ retry.outcomes[1].settled = "e1"
  /\ retry.error = "e2"

\* ------------------------------------------------------- claims C21 .. C30
\* what get must return for a save call: its data, while the call was not
\* followed by a clear and the clock is not past its expiry time
Live(call, now) == call.saved /\ ~call.cleared /\ now <= call.expiryTime
GetAnswers(call) ==
  /\ cacheRun.lastOp.hit <=> Live(call, cacheRun.now)
  /\ cacheRun.lastOp.hit => cacheRun.lastOp.data = JsonRoundTrip(call.data)

LeavesOnlyByGetOrClear ==
  \A k \in CacheKeys :
    (cacheRun.store[k].present /\ ~cacheRun'.store[k].present) =>
      /\ cacheRun'.now = cacheRun.now
      /\ IF cacheRun'.lastOp.op = "get"
         THEN /\ cacheRun'.lastOp.key = k
              /\ cacheRun.now > cacheRun.store[k].expiryTime
         ELSE cacheRun'.lastCall[k].cleared

RECURSIVE SameColumnPairs(_, _, _)
SameColumnPairs(header, valueRow, col) ==
  IF col > Len(valueRow) THEN <<>>
  ELSE LET name == IF col <= Len(header) THEN header[col] ELSE ""
           val == ParseInt(valueRow[col])
       IN  (IF name # "" /\ name # TotalLabel /\ ~val.isNaN /\ val.val > 0
            THEN <<[name |-> name, percentage |-> val.val]>> ELSE <<>>)
           \o SameColumnPairs(header, valueRow, col + 1)

\* C22: the table strategy pairs each value cell of the overall-percentage
\* row with the header cell of the same column, skipping the label column,
\* and drops pairs with an empty or total name or a non-numeric or
\* non-positive value; the table of the source comment gives exactly
\* (exam, 80), (report, 20); the pairing is the same whatever the text of
\* the first header cell.
C22_SameColumnPairing ==
  (extractRun.pc = "done" /\ extractRun.kind = "table" /\ extractRun.table.found) =>
    /\ extractRun.table.result =
         SameColumnPairs(extractRun.tableLines[1], extractRun.tableLines[3], 2)
    /\ extractRun.tableLines[3] = SourceTable("")[3] /\ Len(extractRun.tableLines[1]) = 7
         => extractRun.table.result =
              <<[name |-> "exam", percentage |-> 80], [name |-> "report", percentage |-> 20]>>

\* the reading of a page with an offering-period field, by the field alone
TermOfField(words) ==
  IF "year" \in words \/ "frontback" \in words \/ ("front" \in words /\ "back" \in words)
  THEN "both"
  ELSE IF "back" \in words THEN "fall"
  ELSE "spring"

\* C23: when the page has an offering-period field, extractTerm decides from
\* the field alone (both halves: both; second half only: fall; anything
\* else: spring); the scan of the whole page is used only without a field.
C23_TermFromFieldAlone ==
  (extractRun.pc = "done" /\ extractRun.kind = "term" /\ extractRun.content.field.present) =>
    extractRun.term = TermOfField(extractRun.content.field.words)

\* C30: for every class type and credits 1..10 the absence ceiling stored
\* by syllabusDetailToSubject equals the limit calculateAbsenceLimit
\* computes for the assembled record.
C30_CeilingEqualsLimit ==
  (extractRun.pc = "done" /\ extractRun.kind = "absence") =>
    extractRun.absenceThreshold = extractRun.absenceLimit

\* The entries of the pool that came from the source, and the others.
FromSource(pool, source) ==
  LET Same(e) == e.sourceSchoolId = source[1] /\ e.sourceDepartment = source[2]
  IN  SelectSeq(pool, Same)

FromOtherSources(pool, source) ==
  LET Differs(e) == ~(e.sourceSchoolId = source[1] /\ e.sourceDepartment = source[2])
  IN  SelectSeq(pool, Differs)

SubjectsOf(entries) == [k \in 1..Len(entries) |-> entries[k].subject]

\* What addEntries(S, school, dept) is said to leave behind: the entries of
\* (school, dept) are the subjects of S, in S's order, and the entries of
\* every other source are the ones from before the call, in their order.
Replaced(before, after, subjects, source) ==
  /\ SubjectsOf(FromSource(after, source)) = subjects
  /\ FromOtherSources(after, source) = FromOtherSources(before, source)

NoSharedSlot(subjects) ==
  \A a, b \in 1..Len(subjects) :
    (subjects[a].dayOfWeek = subjects[b].dayOfWeek
       /\ subjects[a].period = subjects[b].period) => a = b

\* A step that is a call of promoteToTimetable keeps the pool, and keeps
\* the timetable too when no pool entry has the id.
PromoteKeepsPool ==
  (poolRun.pc = "run" /\ poolRun'.last.op = "promote")
    => /\ poolRun'.pool = poolRun.pool
       /\ ~poolRun'.last.found => TimetableSubjects(poolRun') = TimetableSubjects(poolRun)

\* C25: promoteToTimetable leaves the subject pool unchanged; after any
\* sequence of promoteToTimetable and storage.deleteSubject calls from an
\* empty timetable no two timetable subjects share a (dayOfWeek, period)
\* slot; promoting an id that is not in the pool changes nothing.
C25_OneSubjectPerSlot ==
  /\ [](poolRun.pc = "run" => NoSharedSlot(TimetableSubjects(poolRun)))
  /\ [][PromoteKeepsPool]_vars

\* A promotion into a taken slot: the subject that held the slot was
\* deleted and the promoted one is the third of the timetable, on the day
\* of the first in another period and under the same generated id.
C25_Witness ==
  /\ poolRun.pc = "run"
  /\ poolRun.last.op = "promote"
  /\ poolRun.last.found
  /\ poolRun.last.replaced
  /\ LET subjects == TimetableSubjects(poolRun)
     IN  /\ Len(subjects) = 3
         /\ subjects[1].dayOfWeek = subjects[3].dayOfWeek
         /\ subjects[1].period # subjects[3].period
         /\ subjects[1].id = subjects[3].id

\* C26: in the result of processInChunks the entries of successful and the
\* entries of failed each appear in ascending original item index, whatever
\* the order in which the workers of a chunk completed.
C26_ResultsInItemOrder ==
  (caller = "callbacks" /\ pc = "returned")
    => /\ \A a, b \in 1..Len(Result.successful) :
            a < b => Result.successful[a].value < Result.successful[b].value
       /\ \A a, b \in 1..Len(Result.failed) :
            a < b => Result.failed[a].index < Result.failed[b].index

\* A returned run in which a later item's worker resolved before an earlier
\* one's and a later item's worker rejected before an earlier one's, all
\* four in the result.
C26_Witness ==
  /\ caller = "callbacks"
  /\ pc = "returned"
  /\ Len(successful) >= 2
  /\ Len(failed) >= 2
  /\ \E a, b \in 1..Len(progressCalls) :
       /\ a < b
       /\ progressCalls[a].current > progressCalls[b].current
       /\ \E j \in 1..Len(successful) :
            successful[j] = ValueOf(progressCalls[a].current - 1)
       /\ \E j \in 1..Len(successful) :
            successful[j] = ValueOf(progressCalls[b].current - 1)
  /\ \E a, b \in 1..Len(errorCalls) :
       /\ a < b
       /\ errorCalls[a].index > errorCalls[b].index

\* C27: an item is recorded in successful whenever its worker resolved; an
\* exception thrown by onProgress for the item does not move it into failed
\* and does not trigger onError for it.  (onProgress is called for exactly
\* the items whose worker resolved.)
C27_ResolvedMeansSuccessful ==
  (caller = "callbacks" /\ pc = "returned")
    => \A p \in 1..Len(progressCalls) :
         LET k == progressCalls[p].current - 1
         IN  /\ \E j \in 1..Len(successful) : successful[j] = ValueOf(k)
             /\ \A j \in 1..Len(failed) : failed[j].index # k
             /\ \A j \in 1..Len(errorCalls) : errorCalls[j].index # k

\* C28: processInChunks always resolves with a result object and never
\* rejects, also when onError throws while a failure is being recorded.
C28_NeverRejects ==
  caller = "callbacks" => pc # "rejected"

\* a run with chunkSize = 0 and at least one item
ZeroChunkRun == chunkSize = 0 /\ Len(items) >= 1 /\ pc # "idle"

\* C29: with chunkSize = 0 and at least one item the loop of processInChunks
\* and of processItemsChunked never advances its index: every chunk it
\* starts is empty and followed by a delay, no worker is invoked, the run
\* does not return, and another round of the loop is always ahead.
C29_ZeroChunkSizeNeverReturns ==
  ZeroChunkRun
    => /\ pc \in {"await", "sleep"}
       /\ i = 0
       /\ \A k \in DOMAIN invoked : invoked[k] = 0 /\ st[k] = "new"
       /\ successful = <<>> /\ failed = <<>>
       /\ chunkStarts = delays + (IF pc = "await" THEN 1 ELSE 0)
       /\ ENABLED \/ caller = "callbacks" /\ ChunkSettled
                  \/ ItemsChunkSettled
                  \/ TimerFired

\* processItemsChunked with chunkSize = 0 in its third round of the loop.
C29_Witness ==
  /\ ZeroChunkRun
  /\ caller = "itemsChunked"
  /\ Len(items) = 2
  /\ chunkStarts = MaxEmptyChunks
  /\ delays = MaxEmptyChunks - 1

====
